---- MODULE Spec2Model ----
(***************************************************************************)
(* openvpn3-tui: the interactive state machine (internal/ui/model.go), the *)
(* openvpn3 CLI wrapper (internal/openvpn/client.go), the profile store    *)
(* (internal/config/config.go), the path completer and the theme watcher.  *)
(*                                                                         *)
(* Go strings are sequences of one-character strings; Go slices are        *)
(* sequences (index i of the code is index i+1 here); cursors keep the     *)
(* code's 0-based values.                                                  *)
(***************************************************************************)
EXTENDS Integers, Sequences, FiniteSets, Bags, TLC

(***************************************************************************)
(* Bounds of the model.                                                    *)
(***************************************************************************)
\* at most this many dispatched commands may be outstanding at once
MaxTasks == 2
\* at most this many profiles are ever held by the store
MaxProfiles == 2
\* at most this many sessions are ever started by the external tool
MaxHandles == 2
\* the user starts to add a profile only while at most this many dispatched
\* commands are outstanding
MaxTypingTasks == 1

(***************************************************************************)
(* Strings.                                                                *)
(***************************************************************************)
EmptyStr == <<>>

max(a, b) == IF a > b THEN a ELSE b

\* strings.HasPrefix
HasPrefix(s, p) ==
    /\ Len(p) <= Len(s)
    /\ SubSeq(s, 1, Len(p)) = p

\* strings.HasSuffix
HasSuffix(s, p) ==
    /\ Len(p) <= Len(s)
    /\ SubSeq(s, Len(s) - Len(p) + 1, Len(s)) = p

\* strings.TrimSuffix
TrimSuffix(s, p) ==
    IF HasSuffix(s, p) THEN SubSeq(s, 1, Len(s) - Len(p)) ELSE s

\* strings.Index: 0-based index of the first occurrence of p in s, or -1
Index(s, p) ==
    LET hits == {i \in 0..(Len(s) - Len(p)) : SubSeq(s, i + 1, i + Len(p)) = p}
    IN  IF hits = {} THEN -1 ELSE CHOOSE i \in hits : \A j \in hits : i <= j

\* strings.LastIndex: 0-based index of the last occurrence of p in s, or -1
LastIndex(s, p) ==
    LET hits == {i \in 0..(Len(s) - Len(p)) : SubSeq(s, i + 1, i + Len(p)) = p}
    IN  IF hits = {} THEN -1 ELSE CHOOSE i \in hits : \A j \in hits : i >= j

\* the Go slice expression s[from:]
SliceFrom(s, from) == SubSeq(s, from + 1, Len(s))

\* the Go slice expression s[:to]
SliceTo(s, to) == SubSeq(s, 1, to)

IsSpace(c) == c \in {" ", "\t"}

\* strings.TrimLeft(s, " ") generalised to white space: strings.TrimSpace's left half
RECURSIVE TrimLeftSpace(_)
TrimLeftSpace(s) ==
    IF s # <<>> /\ IsSpace(Head(s)) THEN TrimLeftSpace(Tail(s)) ELSE s

RECURSIVE TrimRightSpace(_)
TrimRightSpace(s) ==
    IF s # <<>> /\ IsSpace(s[Len(s)])
    THEN TrimRightSpace(SubSeq(s, 1, Len(s) - 1))
    ELSE s

\* strings.TrimSpace
TrimSpace(s) == TrimRightSpace(TrimLeftSpace(s))

\* strings.ToLower over the letters the model uses
UpperCase == <<"A", "B", "C", "D", "E", "F", "G", "H", "I", "J", "K", "L", "M",
               "N", "O", "P", "Q", "R", "S", "T", "U", "V", "W", "X", "Y", "Z">>
LowerCase == <<"a", "b", "c", "d", "e", "f", "g", "h", "i", "j", "k", "l", "m",
               "n", "o", "p", "q", "r", "s", "t", "u", "v", "w", "x", "y", "z">>
IsUpper(c) == \E i \in 1..Len(UpperCase) : UpperCase[i] = c
LowerChar(c) ==
    IF IsUpper(c)
    THEN LowerCase[CHOOSE i \in 1..Len(UpperCase) : UpperCase[i] = c]
    ELSE c
ToLower(s) == [i \in 1..Len(s) |-> LowerChar(s[i])]

\* the byte order of the characters the model uses
ByteOrder == <<"\t", " ", "(", ")", "-", ".", "/", "0", "1", "2", "3", "4", "5",
               "6", "7", "8", "9", ":">> \o UpperCase \o LowerCase \o <<"~">>
Rank(c) == CHOOSE i \in 1..Len(ByteOrder) : ByteOrder[i] = c

\* the Go string comparison a < b
RECURSIVE StrLess(_, _)
StrLess(a, b) ==
    IF b = <<>> THEN FALSE
    ELSE IF a = <<>> THEN TRUE
    ELSE IF Head(a) = Head(b) THEN StrLess(Tail(a), Tail(b))
    ELSE Rank(Head(a)) < Rank(Head(b))

(***************************************************************************)
(* The machine the program runs on: the home directory, the file system    *)
(* and the texts a user types.                                             *)
(***************************************************************************)
\* os.UserHomeDir: main exits before the UI starts when config.Load cannot
\* determine the home directory, so in a running UI the call succeeds
UserHomeDir == [home |-> <<"/", "h">>, err |-> "nil"]

Slash == <<"/">>
Tilde == <<"~">>
Dot == <<".">>
DotOvpn == <<".", "o", "v", "p", "n">>

\* the regular files and the directories that exist
FsFiles == {<<"/", "h", "/", "a", ".", "o", "v", "p", "n">>,
            <<"/", "h", "/", "b", ".", "o", "v", "p", "n">>}
FsDirs == {<<"/">>, <<"/", "h">>}

\* the entries of each directory, sorted by file name as os.ReadDir returns them
DirEntries(dir) ==
    IF dir = <<"/">> THEN <<[name |-> <<"h">>, isDir |-> TRUE]>>
    ELSE IF dir = <<"/", "h">>
    THEN <<[name |-> <<"a", ".", "o", "v", "p", "n">>, isDir |-> FALSE],
           [name |-> <<"b", ".", "o", "v", "p", "n">>, isDir |-> FALSE]>>
    ELSE <<>>

\* what the user enters as a path and as a name, and what else the user
\* types while a path is collected
PathTexts ==
    { <<"~", "/", "a", ".", "o", "v", "p", "n">>,
      <<"/", "h", "/", "a", ".", "o", "v", "p", "n">> }
NameTexts == { <<" ", "q">> }
OtherTexts == { <<"j">>, <<"k">>, <<"r">>, <<"d">> }

IsPrefixOfSome(buf, texts) == \E t \in texts : HasPrefix(t, buf)

\* tea.KeyMsg: the key type, and for a KeyRunes message the runes it carries
\* (one rune for a key press, several for a paste)
SpecialKeys == {"tab", "shift+tab", "enter", "esc", "up", "down", "delete",
                "ctrl+c"}
RuneKeys == { <<"q">>, <<"k">>, <<"j">>, <<"a">>, <<"d">>, <<"r">>, <<"s">>,
              <<" ">>, <<"~", "/", "a", ".", "o", "v", "p", "n">> }
Keys == {[type |-> t, runes |-> <<>>] : t \in SpecialKeys}
            \cup {[type |-> "runes", runes |-> r] : r \in RuneKeys}

\* msg.String() == name, for a special key
IsKey(msg, name) == msg.type = name
\* msg.String() == the one-rune string r
IsRune(msg, r) == msg.type = "runes" /\ msg.runes = <<r>>

(***************************************************************************)
(* path/filepath on a Unix system, for paths without "." and ".." elements *)
(***************************************************************************)
RECURSIVE CollapseSlashes(_)
CollapseSlashes(s) ==
    IF s = <<>> THEN <<>>
    ELSE IF Len(s) >= 2 /\ s[1] = "/" /\ s[2] = "/" THEN CollapseSlashes(Tail(s))
    ELSE <<Head(s)>> \o CollapseSlashes(Tail(s))

RECURSIVE StripTrailingSlashes(_)
StripTrailingSlashes(s) ==
    IF Len(s) > 1 /\ s[Len(s)] = "/"
    THEN StripTrailingSlashes(SubSeq(s, 1, Len(s) - 1))
    ELSE s

\* filepath.Clean
Clean(path) ==
    IF path = <<>> THEN Dot ELSE StripTrailingSlashes(CollapseSlashes(path))

\* filepath.Dir
Dir(path) == Clean(SliceTo(path, LastIndex(path, Slash) + 1))

\* filepath.Base
Base(path) ==
    IF path = <<>> THEN Dot
    ELSE LET p == StripTrailingSlashes(path)
             b == SliceFrom(p, LastIndex(p, Slash) + 1)
         IN  IF b = <<>> THEN Slash ELSE b

\* filepath.Join of a directory and one non-empty name
Join(dir, name) == Clean(dir \o Slash \o name)

\* os.Stat(path) returns no error
StatOk(path) ==
    \/ Clean(path) \in FsDirs
    \/ path \in FsFiles

\* os.Stat(path) returns no error and info.IsDir()
StatIsDir(path) == Clean(path) \in FsDirs

\* os.ReadDir: the entries, or an error for anything but a directory
ReadDir(dir) ==
    IF StatIsDir(dir)
    THEN [entries |-> DirEntries(Clean(dir)), err |-> "nil"]
    ELSE [entries |-> <<>>, err |-> "not a directory"]

(***************************************************************************)
(* internal/ui/completer.go                                                *)
(***************************************************************************)
maxSuggestions == 5

\* the order of sort.Slice in getSuggestions: directories first, then by name
SuggestionLess(a, b) ==
    LET aDir == HasSuffix(a, Slash)
        bDir == HasSuffix(b, Slash)
    IN  IF aDir # bDir THEN aDir ELSE StrLess(ToLower(a), ToLower(b))

RECURSIVE InsertSorted(_, _)
InsertSorted(x, sorted) ==
    IF sorted = <<>> THEN <<x>>
    ELSE IF SuggestionLess(x, Head(sorted)) THEN <<x>> \o sorted
    ELSE <<Head(sorted)>> \o InsertSorted(x, Tail(sorted))

RECURSIVE SortSuggestions(_)
SortSuggestions(matches) ==
    IF matches = <<>> THEN <<>>
    ELSE InsertSorted(Head(matches), SortSuggestions(Tail(matches)))

\* the loop over the directory entries in getSuggestions
RECURSIVE MatchEntries(_, _, _)
MatchEntries(entries, dir, prefix) ==
    IF entries = <<>> THEN <<>>
    ELSE LET entry == Head(entries)
             name == entry.name
             rest == MatchEntries(Tail(entries), dir, prefix)
             fullPath == Join(dir, name)
         IN  IF HasPrefix(name, Dot) /\ ~HasPrefix(prefix, Dot) THEN rest
             ELSE IF prefix # <<>> /\ ~HasPrefix(ToLower(name), ToLower(prefix))
             THEN rest
             ELSE IF entry.isDir THEN <<fullPath \o Slash>> \o rest
             ELSE IF HasSuffix(ToLower(name), DotOvpn) THEN <<fullPath>> \o rest
             ELSE rest

\* PathCompleter.getSuggestions
getSuggestions(input0) ==
    IF input0 = <<>> THEN <<>>
    ELSE
    LET input == IF HasPrefix(input0, Tilde) /\ UserHomeDir.err = "nil"
                 THEN UserHomeDir.home \o SliceFrom(input0, 1)
                 ELSE input0
        inside == HasSuffix(input, Slash)
        dir0 == IF inside THEN input ELSE Dir(input)
        prefix == IF inside THEN <<>> ELSE Base(input)
        found == StatIsDir(dir0)
        dir == IF found THEN dir0 ELSE Dir(dir0)
    IN  IF ~found /\ ~StatOk(dir) THEN <<>>
        ELSE IF ReadDir(dir).err # "nil" THEN <<>>
        ELSE LET matches == SortSuggestions(
                                MatchEntries(ReadDir(dir).entries, dir, prefix))
             IN  IF Len(matches) > maxSuggestions
                 THEN SubSeq(matches, 1, maxSuggestions)
                 ELSE matches

\* NewPathCompleter
NewPathCompleter == [suggestions |-> <<>>, selectedIndex |-> -1]

\* PathCompleter.Update
CompleterUpdate(c, input) ==
    [suggestions |-> getSuggestions(input), selectedIndex |-> -1]

\* PathCompleter.HasSuggestions
HasSuggestions(c) == Len(c.suggestions) > 0

\* PathCompleter.SelectNext
SelectNext(c) ==
    IF Len(c.suggestions) = 0 THEN c
    ELSE IF c.selectedIndex + 1 >= Len(c.suggestions)
    THEN [c EXCEPT !.selectedIndex = 0]
    ELSE [c EXCEPT !.selectedIndex = c.selectedIndex + 1]

\* PathCompleter.SelectPrev
SelectPrev(c) ==
    IF Len(c.suggestions) = 0 THEN c
    ELSE IF c.selectedIndex - 1 < 0
    THEN [c EXCEPT !.selectedIndex = Len(c.suggestions) - 1]
    ELSE [c EXCEPT !.selectedIndex = c.selectedIndex - 1]

\* PathCompleter.GetSelected
GetSelected(c) ==
    IF c.selectedIndex >= 0 /\ c.selectedIndex < Len(c.suggestions)
    THEN c.suggestions[c.selectedIndex + 1]
    ELSE <<>>

\* PathCompleter.Clear
CompleterClear(c) == [suggestions |-> <<>>, selectedIndex |-> -1]

(***************************************************************************)
(* internal/config/config.go                                               *)
(***************************************************************************)
\* a nil error
ErrNil == "nil"

\* config.Profile
Profile(name, path) == [Name |-> name, Path |-> path]
EmptyProfile == Profile(EmptyStr, EmptyStr)

\* Config.AddProfile
AddProfile(ps, name, path) == Append(ps, Profile(name, path))

\* Config.RemoveProfile, had it taken out the first entry whatever the index
RemoveProfileFirst(ps, index) ==
    IF index >= 0 /\ index < Len(ps) THEN Tail(ps) ELSE ps

\* Config.RemoveProfile (index is 0-based)
RemoveProfile(ps, index) ==
    IF index >= 0 /\ index < Len(ps)
    THEN SubSeq(ps, 1, index) \o SubSeq(ps, index + 2, Len(ps))
    ELSE ps

\* Config.ValidateProfiles: entry i+1 is valid[i]
ValidateProfiles(ps) == [i \in 1..Len(ps) |-> StatOk(ps[i].Path)]

\* the lookup m.profileValid[i], had every file been found
ProfileValidAtAlways(valid, i) == TRUE
\* the Go map lookup m.profileValid[i], false for a missing key
ProfileValidAt(valid, i) == IF i + 1 \in DOMAIN valid THEN valid[i + 1] ELSE FALSE

(***************************************************************************)
(* encoding/json, as Config.Save and config.Load use it                    *)
(***************************************************************************)
\* the escapes json.Marshal writes inside a string
HtmlEscapes == {<<"&", <<"0", "0", "2", "6">> >>,
                <<"<", <<"0", "0", "3", "c">> >>,
                <<">", <<"0", "0", "3", "e">> >>}

\* a string value without escaping
EscapeCharNever(c) == <<c>>

EscapeChar(c) ==
    IF c = "\"" \/ c = "\\" THEN <<"\\", c>>
    ELSE IF \E e \in HtmlEscapes : e[1] = c
    THEN <<"\\", "u">> \o (CHOOSE e \in HtmlEscapes : e[1] = c)[2]
    ELSE <<c>>

RECURSIVE EscapeString(_)
EscapeString(str) ==
    IF str = <<>> THEN <<>> ELSE EscapeChar(Head(str)) \o EscapeString(Tail(str))

\* a JSON string
JsonString(str) == <<"\"">> \o EscapeString(str) \o <<"\"">>

\* the indentation of MarshalIndent(c, "", "  ") at a depth
Indent(depth) == [i \in 1..(2 * depth) |-> " "]

JsonKey(depth, key) ==
    <<"\n">> \o Indent(depth) \o JsonString(key) \o <<":", " ">>

\* one Profile object of the array
MarshalProfile(profile) ==
    <<"{">> \o JsonKey(3, <<"n", "a", "m", "e">>) \o JsonString(profile.Name)
        \o <<",">> \o JsonKey(3, <<"p", "a", "t", "h">>) \o JsonString(profile.Path)
        \o <<"\n">> \o Indent(2) \o <<"}">>

RECURSIVE MarshalProfiles(_)
MarshalProfiles(ps) ==
    IF ps = <<>> THEN <<>>
    ELSE <<"\n">> \o Indent(2) \o MarshalProfile(Head(ps))
            \o (IF Len(ps) > 1 THEN <<",">> ELSE <<"\n">> \o Indent(1))
            \o MarshalProfiles(Tail(ps))

\* json.MarshalIndent of the Config
MarshalIndent(ps) ==
    <<"{">> \o JsonKey(1, <<"p", "r", "o", "f", "i", "l", "e", "s">>)
        \o <<"[">> \o MarshalProfiles(ps) \o <<"]">> \o <<"\n", "}">>

\* the parsers give the value read and the position after it
Parsed(ok, val, next) == [ok |-> ok, val |-> val, next |-> next]

RECURSIVE SkipSpace(_, _)
SkipSpace(s, i) ==
    IF i <= Len(s) /\ s[i] \in {" ", "\n", "\t", "\r"} THEN SkipSpace(s, i + 1) ELSE i

\* the character at a position, or "" at the end
At(s, i) == IF i >= 1 /\ i <= Len(s) THEN s[i] ELSE ""

\* the rest of a string value, behind its opening quote
RECURSIVE ParseStringBody(_, _, _)
ParseStringBody(s, i, acc) ==
    IF i > Len(s) THEN Parsed(FALSE, acc, i)
    ELSE IF s[i] = "\"" THEN Parsed(TRUE, acc, i + 1)
    ELSE IF s[i] = "\\"
    THEN IF At(s, i + 1) \in {"\"", "\\", "/"}
         THEN ParseStringBody(s, i + 2, Append(acc, s[i + 1]))
         ELSE IF At(s, i + 1) = "u" /\ i + 5 <= Len(s)
                 /\ \E e \in HtmlEscapes : e[2] = SubSeq(s, i + 2, i + 5)
         THEN ParseStringBody(s, i + 6,
                  Append(acc, (CHOOSE e \in HtmlEscapes :
                                  e[2] = SubSeq(s, i + 2, i + 5))[1]))
         ELSE Parsed(FALSE, acc, i)
    ELSE ParseStringBody(s, i + 1, Append(acc, s[i]))

ParseString(s, i) ==
    IF At(s, i) = "\"" THEN ParseStringBody(s, i + 1, <<>>)
    ELSE Parsed(FALSE, <<>>, i)

\* the members of a Profile object, behind "{" or ","
RECURSIVE ParseMembers(_, _, _)
ParseMembers(s, i, profile) ==
    LET key == ParseString(s, SkipSpace(s, i))
        colon == SkipSpace(s, key.next)
        value == ParseString(s, SkipSpace(s, colon + 1))
        after == SkipSpace(s, value.next)
        field == ToLower(key.val)
        filled == IF field = <<"n", "a", "m", "e">>
                  THEN [profile EXCEPT !.Name = value.val]
                  ELSE IF field = <<"p", "a", "t", "h">>
                  THEN [profile EXCEPT !.Path = value.val]
                  ELSE profile
    IN  IF ~key.ok \/ At(s, colon) # ":" \/ ~value.ok
        THEN Parsed(FALSE, profile, i)
        ELSE IF At(s, after) = "," THEN ParseMembers(s, after + 1, filled)
        ELSE IF At(s, after) = "}" THEN Parsed(TRUE, filled, after + 1)
        ELSE Parsed(FALSE, filled, after)

ParseProfile(s, i) ==
    IF At(s, i) # "{" THEN Parsed(FALSE, EmptyProfile, i)
    ELSE IF At(s, SkipSpace(s, i + 1)) = "}"
    THEN Parsed(TRUE, EmptyProfile, SkipSpace(s, i + 1) + 1)
    ELSE ParseMembers(s, i + 1, EmptyProfile)

\* the elements of the array, behind "[" or ","
RECURSIVE ParseElements(_, _, _)
ParseElements(s, i, acc) ==
    LET element == ParseProfile(s, SkipSpace(s, i))
        after == SkipSpace(s, element.next)
    IN  IF ~element.ok THEN Parsed(FALSE, acc, i)
        ELSE IF At(s, after) = ","
        THEN ParseElements(s, after + 1, Append(acc, element.val))
        ELSE IF At(s, after) = "]"
        THEN Parsed(TRUE, Append(acc, element.val), after + 1)
        ELSE Parsed(FALSE, acc, after)

ParseArray(s, i) ==
    IF i + 3 <= Len(s) /\ SubSeq(s, i, i + 3) = <<"n", "u", "l", "l">>
    THEN Parsed(TRUE, <<>>, i + 4)
    ELSE IF At(s, i) # "[" THEN Parsed(FALSE, <<>>, i)
    ELSE IF At(s, SkipSpace(s, i + 1)) = "]"
    THEN Parsed(TRUE, <<>>, SkipSpace(s, i + 1) + 1)
    ELSE ParseElements(s, i + 1, <<>>)

\* json.Unmarshal into a Config: the profiles, or an error
Unmarshal(data) ==
    LET open == SkipSpace(data, 1)
        key == ParseString(data, SkipSpace(data, open + 1))
        colon == SkipSpace(data, key.next)
        array == ParseArray(data, SkipSpace(data, colon + 1))
        close == SkipSpace(data, array.next)
        ok == /\ At(data, open) = "{"
              /\ key.ok
              /\ ToLower(key.val) = <<"p", "r", "o", "f", "i", "l", "e", "s">>
              /\ At(data, colon) = ":"
              /\ array.ok
              /\ At(data, close) = "}"
              /\ SkipSpace(data, close + 1) = Len(data) + 1
    IN  IF ok THEN [err |-> ErrNil, profiles |-> array.val]
        ELSE [err |-> "invalid character", profiles |-> <<>>]

(***************************************************************************)
(* internal/openvpn/client.go                                              *)
(***************************************************************************)
ErrExit == "exit status 1"

ConfigNotAvailable ==
    <<"(", "C", "o", "n", "f", "i", "g", " ", "n", "o", "t", " ",
      "a", "v", "a", "i", "l", "a", "b", "l", "e", ")">>

\* the post-processing of the "Config name:" value in parseSessionsList
ParseConfigName(value) ==
    LET idx == Index(value, ConfigNotAvailable)
        c1 == IF idx # -1 THEN TrimSpace(SliceTo(value, idx)) ELSE value
        lastSlash == LastIndex(c1, Slash)
        c2 == IF lastSlash # -1 THEN SliceFrom(c1, lastSlash + 1) ELSE c1
    IN  TrimSuffix(c2, DotOvpn)

\* openvpn.Session, with the two fields the state machine reads
Session(path, configName) == [Path |-> path, ConfigName |-> configName]

\* parseSessionsList over the external tool's listing: one block per live
\* session, whose "Path:" is the handle and whose "Config name:" is the
\* configuration file the session was started from
RECURSIVE parseSessionsList(_)
parseSessionsList(ext) ==
    IF ext = <<>> THEN <<>>
    ELSE <<Session(Head(ext).handle, ParseConfigName(Head(ext).config))>>
             \o parseSessionsList(Tail(ext))

\* openvpn.SessionStats of the session with this handle; nil is NoStats
NoStats == <<>>
StatsOf(handle) == <<[handle |-> handle]>>

(***************************************************************************)
(* internal/ui/model.go: the state                                         *)
(***************************************************************************)
(* client.go: the texts of the fields                                      *)
(***************************************************************************)
Digits == <<"0", "1", "2", "3", "4", "5", "6", "7", "8", "9">>
IsDigit(c) == \E d \in 1..10 : Digits[d] = c

\* fmt.Sprintf("%d", n)
RECURSIVE Itoa(_)
Itoa(n) ==
    IF n < 0 THEN <<"-">> \o Itoa(0 - n)
    ELSE IF n < 10 THEN <<Digits[n + 1]>>
    ELSE Itoa(n \div 10) \o <<Digits[(n % 10) + 1]>>

\* fmt.Sscanf(str, "%d", &n) into n = 0: an optional sign and the digits
\* that follow it; n stays 0 if there is no digit
Sscanf(str) ==
    LET signed == str # <<>> /\ Head(str) \in {"+", "-"}
        body   == IF signed THEN Tail(str) ELSE str
        DigitValue(c) == (CHOOSE d \in 1..10 : Digits[d] = c) - 1
        RECURSIVE Scan(_, _)
        Scan(rest, n) ==
            IF rest # <<>> /\ IsDigit(Head(rest))
            THEN Scan(Tail(rest), n * 10 + DigitValue(Head(rest)))
            ELSE n
        n == Scan(body, 0)
    IN  IF signed /\ Head(str) = "-" THEN 0 - n ELSE n

\* fmt.Sprintf("%.2f", float64(n)/unit) for 0 <= n < 2^31 and a unit that is
\* a power of two and at least 1024: the quotient is exact in a float64, and
\* %.2f rounds it to the nearest hundredth, an exact half to the even one.
\* n*100 is never formed as a whole, so that no product exceeds 2^31.
Sprintf2f(n, unit) ==
    LET whole  == n \div unit
        r      == n % unit
        rh     == r \div 1024
        rl     == r % 1024
        scaled == unit \div 1024
        t      == rh * 200 + (rl * 200) \div 1024
        twice  == t \div scaled             \* floor(r*200/unit)
        exact  == (rl * 200) % 1024 = 0 /\ t % scaled = 0
        low    == twice \div 2              \* floor(r*100/unit)
        up     == IF twice % 2 = 0 THEN 0
                  ELSE IF ~exact THEN 1
                  ELSE low % 2
        h      == whole * 100 + low + up
    IN  Itoa(h \div 100) \o <<".", Digits[((h \div 10) % 10) + 1], Digits[(h % 10) + 1]>>

\* formatBytes, had it taken a unit only above its size
formatBytesAbove(bytesStr) ==
    LET bytes == Sscanf(bytesStr)
        KB == 1024
        MB == KB * 1024
        GB == MB * 1024
    IN  IF bytes > GB THEN Sprintf2f(bytes, GB) \o <<" ", "G", "B">>
        ELSE IF bytes > MB THEN Sprintf2f(bytes, MB) \o <<" ", "M", "B">>
        ELSE IF bytes > KB THEN Sprintf2f(bytes, KB) \o <<" ", "K", "B">>
        ELSE Itoa(bytes) \o <<" ", "B">>

\* formatBytes
formatBytes(bytesStr) ==
    LET bytes == Sscanf(bytesStr)
        KB == 1024
        MB == KB * 1024
        GB == MB * 1024
    IN  IF bytes >= GB THEN Sprintf2f(bytes, GB) \o <<" ", "G", "B">>
        ELSE IF bytes >= MB THEN Sprintf2f(bytes, MB) \o <<" ", "M", "B">>
        ELSE IF bytes >= KB THEN Sprintf2f(bytes, KB) \o <<" ", "K", "B">>
        ELSE Itoa(bytes) \o <<" ", "B">>

\* strings.TrimLeft(s, " ")
RECURSIVE TrimLeft(_)
TrimLeft(s) == IF s # <<>> /\ Head(s) = " " THEN TrimLeft(Tail(s)) ELSE s

\* extractValue
extractValue(line, key) ==
    LET idx == Index(line, key)
    IN  IF idx = -1 THEN EmptyStr
        ELSE LET rest == SliceFrom(line, idx + Len(key))
                 \* the i at which the loop breaks
                 ends == {i \in 1..(Len(rest) - 2) :
                             /\ rest[i + 1] = " "
                             /\ LET trimmed == TrimLeft(SliceFrom(rest, i))
                                    colonIdx == Index(trimmed, <<":">>)
                                IN  /\ Len(trimmed) > 0
                                    /\ IsUpper(trimmed[1])
                                    /\ colonIdx > 0
                                    /\ colonIdx < 20}
                 value == IF ends = {} THEN rest
                          ELSE SliceTo(rest, CHOOSE i \in ends : \A j \in ends : i <= j)
             IN  TrimSpace(value)

(***************************************************************************)
VARIABLES
    profiles,       \* m.config.Profiles
    stored,         \* the contents of config.json
    profileValid,   \* m.profileValid
    sessions,       \* m.sessions
    currentView,    \* m.currentView
    profileCursor,  \* m.profileCursor
    sessionCursor,  \* m.sessionCursor
    selectedStats,  \* m.selectedStats
    loading,        \* m.loading
    loadingMsg,     \* m.loadingMsg
    styles,         \* m.styles: the theme they were made from
    inputMode,      \* m.inputMode
    textInput,      \* m.textInput.Value() while an input is collected (the
                    \* value is dead once the mode is InputNone:
                    \* startAddProfile replaces it before it is read again)
    newProfile,     \* m.newProfile
    completer,      \* m.completer
    statusMsg,      \* m.statusMsg
    errorMsg,       \* m.errorMsg
    quit,           \* tea.Quit was returned
    tasks,          \* the dispatched commands that have not delivered their message
    watchers,       \* the WatchTheme commands that have not delivered their message
    extSessions,    \* the sessions the openvpn3 service holds
    nextHandle,     \* the handle the service gives to its next session
    themeFile,      \* the theme the theme file holds
    diskOk,         \* the configuration directory can be written
    fn,             \* the function of the client package called last on its own
    args,           \* the arguments of that call
    ret             \* what that call returned

modelVars == <<profiles, stored, profileValid, sessions, currentView,
               profileCursor, sessionCursor, selectedStats, loading, loadingMsg,
               styles, inputMode, textInput, newProfile, completer, statusMsg,
               errorMsg, quit>>
called == <<fn, args, ret>>
envVars == <<extSessions, nextHandle, themeFile, diskOk, called>>
vars == <<modelVars, tasks, watchers, envVars>>

cfgVars == <<profiles, stored, profileValid>>
inputVars == <<inputMode, textInput, newProfile, completer>>
cursorVars == <<profileCursor, sessionCursor>>
msgVars == <<statusMsg, errorMsg>>
loadVars == <<loading, loadingMsg>>

NoMsg == <<>>
\* fmt.Sprintf of a format with one argument
Sprintf(format, arg) == <<format, arg>>
\* a message without arguments
Text(t) == <<t>>

(***************************************************************************)
(* Commands (tea.Cmd) and the messages they deliver                        *)
(***************************************************************************)
Cmd(kind, path, handle) ==
    [kind |-> kind, path |-> path, handle |-> handle, phase |-> "running",
     sessions |-> <<>>, err |-> ErrNil]

\* Model.refreshSessions
refreshSessions == Cmd("refreshSessions", EmptyStr, 0)
\* Model.fetchStats, had it asked for the stats of no session
fetchStatsNoSession(handle) == Cmd("fetchStats", EmptyStr, 0)
\* Model.fetchStats
fetchStats(handle) == Cmd("fetchStats", EmptyStr, handle)
\* Model.connect, had it started the session without the path of the profile
connectNoPath(configPath) == Cmd("connect", EmptyStr, 0)
\* Model.connect
connect(configPath) == Cmd("connect", configPath, 0)
\* Model.disconnect
disconnect(handle) == Cmd("disconnect", EmptyStr, handle)

RECURSIVE SeqToBag(_)
SeqToBag(q) == IF q = <<>> THEN EmptyBag ELSE SetToBag({Head(q)}) (+) SeqToBag(Tail(q))

\* the program hands the commands an Update returns to the runtime, which
\* runs each in its own goroutine
Dispatch(cmds) == tasks' = tasks (+) SeqToBag(cmds)

(***************************************************************************)
(* internal/ui/model.go: NewModel, Init and the helpers of Update          *)
(***************************************************************************)
\* the profile list config.Load finds at start: one profile, whose file
\* has been removed since
InitialProfiles == <<Profile(<<"d">>, <<"/", "d">>)>>

Themes == {"default", "custom"}

\* main, NewModel and Model.Init, for the profiles config.Load finds, the
\* sessions the service holds and a configuration directory that can be
\* written or not
Start(ps, ext, writable) ==
    /\ profiles = ps
    /\ stored = MarshalIndent(profiles)
    /\ profileValid = ValidateProfiles(profiles)
    /\ sessions = <<>>
    /\ currentView = "ViewProfiles"
    /\ profileCursor = 0
    /\ sessionCursor = 0
    /\ selectedStats = NoStats
    /\ loading = TRUE
    /\ loadingMsg = "Fetching sessions..."
    /\ themeFile = "default"
    /\ styles = themeFile
    /\ inputMode = "InputNone"
    /\ textInput = EmptyStr
    /\ newProfile = EmptyProfile
    /\ completer = NewPathCompleter
    /\ statusMsg = NoMsg
    /\ errorMsg = NoMsg
    /\ quit = FALSE
    /\ tasks = SetToBag({refreshSessions})
    /\ watchers = [armed |-> 1, fired |-> 0]
    /\ extSessions = ext
    /\ nextHandle = Len(ext) + 1
    /\ diskOk = writable
    /\ fn = "none"
    /\ args = <<>>
    /\ ret = <<>>

Init == Start(InitialProfiles, <<>>, TRUE)

\* Model.isProfileConnected, had it compared the file name with its directory
isProfileConnectedWholePath(ss, profilePath) ==
    \E i \in 1..Len(ss) : ss[i].ConfigName = TrimSuffix(profilePath, DotOvpn)

\* Model.isProfileConnected
isProfileConnected(ss, profilePath) ==
    LET lastSlash == LastIndex(profilePath, Slash)
        base == IF lastSlash # -1 THEN SliceFrom(profilePath, lastSlash + 1)
                ELSE profilePath
        profileName == TrimSuffix(base, DotOvpn)
    IN  \E i \in 1..Len(ss) : ss[i].ConfigName = profileName

\* Model.renderProfiles, the loop over the profiles: for each row the style
\* it is rendered in, its text, and whether [connected] follows it
renderProfiles ==
    [i \in 1..Len(profiles) |->
        LET cursor == IF i - 1 = profileCursor THEN <<">", " ">> ELSE <<" ", " ">>
            isConnected == isProfileConnected(sessions, profiles[i].Path)
            line == cursor \o profiles[i].Name
            notFound == <<" ", "(", "f", "i", "l", "e", " ", "n", "o", "t", " ",
                          "f", "o", "u", "n", "d", ")">>
        IN  IF i - 1 = profileCursor
            THEN [style |-> "Selected", text |-> line, connected |-> isConnected]
            ELSE IF ~profileValid[i]
            THEN [style |-> "Invalid", text |-> line \o notFound,
                  connected |-> FALSE]
            ELSE [style |-> "Normal", text |-> line, connected |-> isConnected]]

\* Model.clearMessages
clearMessages ==
    /\ statusMsg' = NoMsg
    /\ errorMsg' = NoMsg

\* Model.moveCursorUp
moveCursorUp ==
    /\ IF currentView = "ViewProfiles"
       THEN /\ profileCursor' = IF profileCursor > 0 THEN profileCursor - 1
                                ELSE profileCursor
            /\ UNCHANGED sessionCursor
       ELSE /\ sessionCursor' = IF sessionCursor > 0 THEN sessionCursor - 1
                                ELSE sessionCursor
            /\ UNCHANGED profileCursor
    /\ selectedStats' = NoStats

\* Model.moveCursorDown, had it cleared the stats only in the Sessions view
moveCursorDownKeepsStats ==
    IF currentView = "ViewProfiles"
    THEN /\ profileCursor' = IF profileCursor < Len(profiles) - 1
                             THEN profileCursor + 1 ELSE profileCursor
         /\ UNCHANGED <<sessionCursor, selectedStats>>
    ELSE /\ sessionCursor' = IF sessionCursor < Len(sessions) - 1
                             THEN sessionCursor + 1 ELSE sessionCursor
         /\ selectedStats' = NoStats
         /\ UNCHANGED profileCursor

\* Model.moveCursorDown
moveCursorDown ==
    /\ IF currentView = "ViewProfiles"
       THEN /\ profileCursor' = IF profileCursor < Len(profiles) - 1
                                THEN profileCursor + 1 ELSE profileCursor
            /\ UNCHANGED sessionCursor
       ELSE /\ sessionCursor' = IF sessionCursor < Len(sessions) - 1
                                THEN sessionCursor + 1 ELSE sessionCursor
            /\ UNCHANGED profileCursor
    /\ selectedStats' = NoStats

(***************************************************************************)
(* Update, case tea.KeyMsg with m.inputMode == InputNone                   *)
(***************************************************************************)
\* case "q", "ctrl+c"
KeyQuit ==
    /\ quit' = TRUE
    /\ UNCHANGED <<cfgVars, sessions, currentView, cursorVars, selectedStats,
                   loadVars, styles, inputVars, msgVars, tasks>>

\* case "tab"
KeySwitchView ==
    /\ currentView' = IF currentView = "ViewProfiles" THEN "ViewSessions"
                      ELSE "ViewProfiles"
    /\ clearMessages
    /\ UNCHANGED <<cfgVars, sessions, cursorVars, selectedStats, loadVars,
                   styles, inputVars, quit, tasks>>

\* case "up", "k"
KeyUp ==
    /\ moveCursorUp
    /\ UNCHANGED <<cfgVars, sessions, currentView, loadVars, styles, inputVars,
                   msgVars, quit, tasks>>

\* case "down", "j"
KeyDown ==
    /\ moveCursorDown
    /\ UNCHANGED <<cfgVars, sessions, currentView, loadVars, styles, inputVars,
                   msgVars, quit, tasks>>

\* Model.handleEnter
handleEnter ==
    IF currentView = "ViewProfiles"
    THEN IF Len(profiles) = 0
         THEN /\ clearMessages
              /\ UNCHANGED <<loadVars, tasks>>
         ELSE IF ~ProfileValidAt(profileValid, profileCursor)
         THEN /\ statusMsg' = NoMsg
              /\ errorMsg' = Text("Config file not found")
              /\ UNCHANGED <<loadVars, tasks>>
         ELSE LET profile == profiles[profileCursor + 1]
              IN  IF isProfileConnected(sessions, profile.Path)
                  THEN /\ statusMsg' = NoMsg
                       /\ errorMsg' = Sprintf("'%s' is already connected", profile.Name)
                       /\ UNCHANGED <<loadVars, tasks>>
                  ELSE /\ errorMsg' = NoMsg
                       /\ statusMsg' = Sprintf("Connecting to %s...", profile.Name)
                       /\ loading' = TRUE
                       /\ loadingMsg' = "Connecting..."
                       /\ Dispatch(<<connect(profile.Path)>>)
    ELSE IF Len(sessions) > 0
         THEN /\ clearMessages
              /\ loading' = TRUE
              /\ loadingMsg' = "Fetching stats..."
              /\ Dispatch(<<fetchStats(sessions[sessionCursor + 1].Path)>>)
         ELSE /\ clearMessages
              /\ UNCHANGED <<loadVars, tasks>>

\* case "enter"
KeyEnter ==
    /\ handleEnter
    /\ UNCHANGED <<cfgVars, sessions, currentView, cursorVars, selectedStats,
                   styles, inputVars, quit>>

\* Model.startAddProfile
startAddProfile ==
    /\ inputMode' = "InputProfilePath"
    /\ textInput' = EmptyStr
    /\ clearMessages
    /\ UNCHANGED <<newProfile, completer>>

\* case "a"
KeyAdd ==
    /\ IF currentView = "ViewProfiles"
       THEN startAddProfile
       ELSE UNCHANGED <<inputVars, msgVars>>
    /\ UNCHANGED <<cfgVars, sessions, currentView, cursorVars, selectedStats,
                   loadVars, styles, quit, tasks>>

\* Config.Save: the file is replaced, or an error is returned and it is not
Save(ps, err) ==
    stored' = IF err = ErrNil THEN MarshalIndent(ps) ELSE stored

\* the error of a Config.Save that never fails
SaveErrorNever == ErrNil
\* the error Config.Save returns
SaveError == IF diskOk THEN ErrNil ELSE "permission denied"

\* Model.handleDelete
handleDelete(saveErr) ==
    IF currentView = "ViewProfiles"
    THEN IF Len(profiles) > 0
         THEN LET name == profiles[profileCursor + 1].Name
                  left == RemoveProfile(profiles, profileCursor)
              IN  /\ profiles' = left
                  /\ Save(left, saveErr)
                  /\ IF saveErr # ErrNil
                     THEN /\ errorMsg' = Sprintf("Failed to save config: %v", saveErr)
                          /\ statusMsg' = NoMsg
                     ELSE /\ statusMsg' = Sprintf("Removed profile: %s", name)
                          /\ errorMsg' = NoMsg
                  /\ profileValid' = ValidateProfiles(left)
                  /\ profileCursor' = IF profileCursor >= Len(left)
                                      THEN max(0, Len(left) - 1)
                                      ELSE profileCursor
                  /\ UNCHANGED tasks
         ELSE /\ clearMessages
              /\ UNCHANGED <<cfgVars, profileCursor, tasks>>
    ELSE IF Len(sessions) > 0
         THEN LET session == sessions[sessionCursor + 1]
              IN  /\ errorMsg' = NoMsg
                  /\ statusMsg' = Text("Disconnecting...")
                  /\ Dispatch(<<disconnect(session.Path)>>)
                  /\ UNCHANGED <<cfgVars, profileCursor>>
         ELSE /\ clearMessages
              /\ UNCHANGED <<cfgVars, profileCursor, tasks>>

\* case "d", "delete"
KeyDelete ==
    /\ handleDelete(SaveError)
    /\ UNCHANGED <<sessions, currentView, sessionCursor, selectedStats, loadVars,
                   styles, inputVars, quit>>

\* case "r"
KeyRefresh ==
    /\ clearMessages
    /\ loading' = TRUE
    /\ loadingMsg' = "Refreshing sessions..."
    /\ Dispatch(<<refreshSessions>>)
    /\ UNCHANGED <<cfgVars, sessions, currentView, cursorVars, selectedStats,
                   styles, inputVars, quit>>

\* case "s"
KeyStats ==
    /\ IF currentView = "ViewSessions" /\ Len(sessions) > 0
       THEN /\ loading' = TRUE
            /\ loadingMsg' = "Fetching stats..."
            /\ Dispatch(<<fetchStats(sessions[sessionCursor + 1].Path)>>)
       ELSE UNCHANGED <<loadVars, tasks>>
    /\ UNCHANGED <<cfgVars, sessions, currentView, cursorVars, selectedStats,
                   styles, inputVars, msgVars, quit>>

\* a key no case of the switch names
KeyIgnored == UNCHANGED <<modelVars, tasks>>

\* the switch msg.String() of Update
NormalKey(msg) ==
    IF IsRune(msg, "q") \/ IsKey(msg, "ctrl+c") THEN KeyQuit
    ELSE IF IsKey(msg, "tab") THEN KeySwitchView
    ELSE IF IsKey(msg, "up") \/ IsRune(msg, "k") THEN KeyUp
    ELSE IF IsKey(msg, "down") \/ IsRune(msg, "j") THEN KeyDown
    ELSE IF IsKey(msg, "enter") THEN KeyEnter
    ELSE IF IsRune(msg, "a") THEN KeyAdd
    ELSE IF IsRune(msg, "d") \/ IsKey(msg, "delete") THEN KeyDelete
    ELSE IF IsRune(msg, "r") THEN KeyRefresh
    ELSE IF IsRune(msg, "s") THEN KeyStats
    ELSE KeyIgnored

(***************************************************************************)
(* Update, case tea.KeyMsg with m.inputMode != InputNone: handleInputMode  *)
(***************************************************************************)
\* case "esc", had it kept the partial profile
InputEscKeepsProfile ==
    /\ inputMode' = "InputNone"
    /\ completer' = CompleterClear(completer)
    /\ textInput' = EmptyStr
    /\ UNCHANGED <<newProfile, cfgVars, msgVars>>

\* case "esc"
InputEsc ==
    /\ inputMode' = "InputNone"
    /\ newProfile' = EmptyProfile
    /\ completer' = CompleterClear(completer)
    /\ textInput' = EmptyStr
    /\ UNCHANGED <<cfgVars, msgVars>>

\* the body shared by case "tab" and case "shift+tab": after the selection
\* moved, the selected suggestion replaces the input and the suggestions are
\* computed again for it
ApplySelection(moved) ==
    LET selected == GetSelected(moved)
    IN  IF selected # EmptyStr
        THEN /\ textInput' = selected
             /\ completer' = CompleterUpdate(moved, selected)
        ELSE /\ completer' = moved
             /\ UNCHANGED textInput

\* case "tab"
InputTab ==
    /\ IF inputMode = "InputProfilePath" /\ HasSuggestions(completer)
       THEN ApplySelection(SelectNext(completer))
       ELSE UNCHANGED <<textInput, completer>>
    /\ UNCHANGED <<inputMode, newProfile, cfgVars, msgVars>>

\* case "shift+tab"
InputShiftTab ==
    /\ IF inputMode = "InputProfilePath" /\ HasSuggestions(completer)
       THEN ApplySelection(SelectPrev(completer))
       ELSE UNCHANGED <<textInput, completer>>
    /\ UNCHANGED <<inputMode, newProfile, cfgVars, msgVars>>

\* case "enter", had it kept the path as typed
ExpandHomeNever(value) == value

\* the expansion of a leading ~ in case "enter"
ExpandHome(value) ==
    IF HasPrefix(value, Tilde) /\ UserHomeDir.err = ErrNil
    THEN UserHomeDir.home \o SliceFrom(value, 1)
    ELSE value

\* case "enter" with m.inputMode == InputProfilePath
InputEnterPath(value) ==
    /\ newProfile' = [newProfile EXCEPT !.Path = ExpandHome(value)]
    /\ inputMode' = "InputProfileName"
    /\ textInput' = EmptyStr
    /\ completer' = CompleterClear(completer)
    /\ UNCHANGED <<cfgVars, msgVars>>

\* case "enter" with m.inputMode == InputProfileName
InputEnterName(value, saveErr) ==
    LET added == AddProfile(profiles, value, newProfile.Path)
    IN  /\ profiles' = added
        /\ Save(added, saveErr)
        /\ IF saveErr # ErrNil
           THEN /\ errorMsg' = Sprintf("Failed to save config: %v", saveErr)
                /\ UNCHANGED statusMsg
           ELSE /\ statusMsg' = Sprintf("Added profile: %s", value)
                /\ UNCHANGED errorMsg
        /\ profileValid' = ValidateProfiles(added)
        /\ inputMode' = "InputNone"
        /\ newProfile' = EmptyProfile
        /\ completer' = CompleterClear(completer)
        /\ textInput' = EmptyStr

\* case "enter"
InputEnter ==
    LET value == TrimSpace(textInput)
    IN  IF value = EmptyStr
        THEN UNCHANGED <<inputVars, cfgVars, msgVars>>
        ELSE IF inputMode = "InputProfilePath"
        THEN InputEnterPath(value)
        ELSE InputEnterName(value, SaveError)

\* textinput.Model.Update with the cursor at the end of the value: runes are
\* inserted, and the other keys that reach it here leave the value alone
TextInputUpdate(value, msg) ==
    IF msg.type = "runes" THEN value \o msg.runes ELSE value

\* the end of handleInputMode: every other key goes to the text input
InputType(msg) ==
    LET value == TextInputUpdate(textInput, msg)
    IN  /\ textInput' = value
        /\ completer' = IF inputMode = "InputProfilePath"
                        THEN CompleterUpdate(completer, value)
                        ELSE completer
        /\ UNCHANGED <<inputMode, newProfile, cfgVars, msgVars>>

\* Model.handleInputMode
handleInputMode(msg) ==
    /\ IF IsKey(msg, "esc") THEN InputEsc
       ELSE IF IsKey(msg, "tab") THEN InputTab
       ELSE IF IsKey(msg, "shift+tab") THEN InputShiftTab
       ELSE IF IsKey(msg, "enter") THEN InputEnter
       ELSE InputType(msg)
    /\ UNCHANGED <<sessions, currentView, cursorVars, selectedStats, loadVars,
                   styles, quit, tasks>>

\* Update, case tea.KeyMsg, had it gone to the switch whatever m.inputMode is
UpdateKeyMsgNoInputMode(msg) ==
    /\ ~quit
    /\ NormalKey(msg)
    /\ UNCHANGED <<watchers, envVars>>

\* Update, case tea.KeyMsg
UpdateKeyMsg(msg) ==
    /\ ~quit
    /\ IF inputMode # "InputNone" THEN handleInputMode(msg) ELSE NormalKey(msg)
    /\ UNCHANGED <<watchers, envVars>>

(***************************************************************************)
(* The commands at work: each closure calls the client once and returns    *)
(* one message.  The listing of refreshSessions is taken when the external *)
(* process runs and is applied when Update gets the message; the other     *)
(* three calls take effect at the moment their message is applied.         *)
(***************************************************************************)
HandleOf(i) == extSessions[i].handle
LiveHandles == {HandleOf(i) : i \in 1..Len(extSessions)}

\* the closure of refreshSessions: Client.ListSessions
RunListSessions(t) ==
    /\ t.kind = "refreshSessions"
    /\ t.phase = "running"
    /\ \E err \in {ErrNil, ErrExit} :
          tasks' = (tasks (-) SetToBag({t})) (+)
                   SetToBag({[t EXCEPT !.phase = "done", !.err = err,
                                       !.sessions = IF err = ErrNil
                                                    THEN parseSessionsList(extSessions)
                                                    ELSE <<>>]})

\* a goroutine of the runtime runs the closure of a dispatched refreshSessions
RunTask ==
    /\ ~quit
    /\ \E t \in BagToSet(tasks) : RunListSessions(t)
    /\ UNCHANGED <<modelVars, watchers, envVars>>

\* Client.GetSessionStats: the stats of a live session, or an error
GetSessionStats(handle, err) ==
    /\ err = ErrNil => handle \in LiveHandles
    /\ UNCHANGED <<extSessions, nextHandle>>

\* Client.Connect: the service starts a session from the file, or fails
Connect(configPath, err) ==
    IF err = ErrNil
    THEN /\ nextHandle <= MaxHandles
         /\ extSessions' = Append(extSessions,
                                  [handle |-> nextHandle, config |-> configPath])
         /\ nextHandle' = nextHandle + 1
    ELSE UNCHANGED <<extSessions, nextHandle>>

\* Client.Disconnect: the service ends the session, or fails
Disconnect(handle, err) ==
    /\ err = ErrNil => handle \in LiveHandles
    /\ extSessions' = IF err = ErrNil
                      THEN SelectSeq(extSessions, LAMBDA e : e.handle # handle)
                      ELSE extSessions
    /\ UNCHANGED nextHandle

(***************************************************************************)
(* Update, the cases of the result messages                                *)
(***************************************************************************)
\* a runtime that hands the message of a finished command to Update and
\* keeps the command, to hand its message over again
DeliveredAgain(t, cmds) == tasks' = tasks (+) SeqToBag(cmds)

\* the runtime takes the message of a finished command off its channel and
\* Update returns these follow-up commands for it
Delivered(t, cmds) == tasks' = (tasks (-) SetToBag({t})) (+) SeqToBag(cmds)

\* case sessionRefreshMsg, had it replaced the list without the cursor check
UpdateSessionRefreshMsgNoClamp(t) ==
    /\ t.kind = "refreshSessions"
    /\ t.phase = "done"
    /\ loading' = FALSE
    /\ IF t.err # ErrNil
       THEN /\ errorMsg' = Sprintf("Failed to fetch sessions: %v", t.err)
            /\ UNCHANGED sessions
       ELSE /\ sessions' = t.sessions
            /\ UNCHANGED errorMsg
    /\ tasks' = tasks (-) SetToBag({t})
    /\ UNCHANGED <<cfgVars, currentView, cursorVars, selectedStats, loadingMsg,
                   styles, inputVars, statusMsg, quit, extSessions, nextHandle>>

\* case sessionRefreshMsg, had it added the new entries to the list it has
UpdateSessionRefreshMsgMerges(t) ==
    /\ t.kind = "refreshSessions"
    /\ t.phase = "done"
    /\ loading' = FALSE
    /\ IF t.err # ErrNil
       THEN /\ errorMsg' = Sprintf("Failed to fetch sessions: %v", t.err)
            /\ UNCHANGED <<sessions, sessionCursor>>
       ELSE /\ sessions' = sessions \o
                    SelectSeq(t.sessions,
                              LAMBDA e : \A j \in 1..Len(sessions) : sessions[j] # e)
            /\ sessionCursor' = IF sessionCursor >= Len(sessions')
                                THEN max(0, Len(sessions') - 1)
                                ELSE sessionCursor
            /\ UNCHANGED errorMsg
    /\ Delivered(t, <<>>)
    /\ UNCHANGED <<cfgVars, currentView, profileCursor, selectedStats, loadingMsg,
                   styles, inputVars, statusMsg, quit, extSessions, nextHandle>>

\* case sessionRefreshMsg
UpdateSessionRefreshMsg(t) ==
    /\ t.kind = "refreshSessions"
    /\ t.phase = "done"
    /\ loading' = FALSE
    /\ IF t.err # ErrNil
       THEN /\ errorMsg' = Sprintf("Failed to fetch sessions: %v", t.err)
            /\ UNCHANGED <<sessions, sessionCursor>>
       ELSE /\ sessions' = t.sessions
            /\ sessionCursor' = IF sessionCursor >= Len(t.sessions)
                                THEN max(0, Len(t.sessions) - 1)
                                ELSE sessionCursor
            /\ UNCHANGED errorMsg
    /\ Delivered(t, <<>>)
    /\ UNCHANGED <<cfgVars, currentView, profileCursor, selectedStats, loadingMsg,
                   styles, inputVars, statusMsg, quit, extSessions, nextHandle>>

\* case statsRefreshMsg, had it left m.loading as it was
UpdateStatsRefreshMsgStillLoading(t, err) ==
    /\ t.kind = "fetchStats"
    /\ GetSessionStats(t.handle, err)
    /\ IF err # ErrNil
       THEN /\ errorMsg' = Sprintf("Failed to fetch stats: %v", err)
            /\ UNCHANGED selectedStats
       ELSE /\ selectedStats' = StatsOf(t.handle)
            /\ UNCHANGED errorMsg
    /\ tasks' = tasks (-) SetToBag({t})
    /\ UNCHANGED <<cfgVars, sessions, currentView, cursorVars, loadVars, styles,
                   inputVars, statusMsg, quit>>

\* case statsRefreshMsg
UpdateStatsRefreshMsg(t, err) ==
    /\ t.kind = "fetchStats"
    /\ GetSessionStats(t.handle, err)
    /\ loading' = FALSE
    /\ IF err # ErrNil
       THEN /\ errorMsg' = Sprintf("Failed to fetch stats: %v", err)
            /\ UNCHANGED selectedStats
       ELSE /\ selectedStats' = StatsOf(t.handle)
            /\ UNCHANGED errorMsg
    /\ Delivered(t, <<>>)
    /\ UNCHANGED <<cfgVars, sessions, currentView, cursorVars, loadingMsg, styles,
                   inputVars, statusMsg, quit>>

\* case connectMsg, had it listed the sessions again after a failure too
UpdateConnectMsgAlwaysRefresh(t, err) ==
    /\ t.kind = "connect"
    /\ Connect(t.path, err)
    /\ IF err # ErrNil
       THEN /\ errorMsg' = Sprintf("Connection failed: %v", err)
            /\ UNCHANGED statusMsg
       ELSE /\ statusMsg' = Text("Connected successfully!")
            /\ UNCHANGED errorMsg
    /\ loading' = TRUE
    /\ loadingMsg' = "Refreshing sessions..."
    /\ tasks' = (tasks (-) SetToBag({t})) (+) SetToBag({refreshSessions})
    /\ UNCHANGED <<cfgVars, sessions, currentView, cursorVars, selectedStats,
                   styles, inputVars, quit>>

\* case connectMsg, had a success set loading without listing the sessions
UpdateConnectMsgNoRefresh(t, err) ==
    /\ t.kind = "connect"
    /\ Connect(t.path, err)
    /\ IF err # ErrNil
       THEN /\ loading' = FALSE
            /\ errorMsg' = Sprintf("Connection failed: %v", err)
            /\ Delivered(t, <<>>)
            /\ UNCHANGED <<statusMsg, loadingMsg>>
       ELSE /\ statusMsg' = Text("Connected successfully!")
            /\ loading' = TRUE
            /\ loadingMsg' = "Refreshing sessions..."
            /\ Delivered(t, <<>>)
            /\ UNCHANGED errorMsg
    /\ UNCHANGED <<cfgVars, sessions, currentView, cursorVars, selectedStats,
                   styles, inputVars, quit>>

\* case connectMsg
UpdateConnectMsg(t, err) ==
    /\ t.kind = "connect"
    /\ Connect(t.path, err)
    /\ IF err # ErrNil
       THEN /\ loading' = FALSE
            /\ errorMsg' = Sprintf("Connection failed: %v", err)
            /\ Delivered(t, <<>>)
            /\ UNCHANGED <<statusMsg, loadingMsg>>
       ELSE /\ statusMsg' = Text("Connected successfully!")
            /\ loading' = TRUE
            /\ loadingMsg' = "Refreshing sessions..."
            /\ Delivered(t, <<refreshSessions>>)
            /\ UNCHANGED errorMsg
    /\ UNCHANGED <<cfgVars, sessions, currentView, cursorVars, selectedStats,
                   styles, inputVars, quit>>

\* case disconnectMsg, had it not listed the sessions again after a success
UpdateDisconnectMsgNoRefresh(t, err) ==
    /\ t.kind = "disconnect"
    /\ Disconnect(t.handle, err)
    /\ loading' = FALSE
    /\ IF err # ErrNil
       THEN /\ errorMsg' = Sprintf("Disconnect failed: %v", err)
            /\ UNCHANGED <<statusMsg, selectedStats>>
       ELSE /\ statusMsg' = Text("Disconnected successfully!")
            /\ selectedStats' = NoStats
            /\ UNCHANGED errorMsg
    /\ tasks' = tasks (-) SetToBag({t})
    /\ UNCHANGED <<cfgVars, sessions, currentView, cursorVars, loadingMsg, styles,
                   inputVars, quit>>

\* case disconnectMsg
UpdateDisconnectMsg(t, err) ==
    /\ t.kind = "disconnect"
    /\ Disconnect(t.handle, err)
    /\ IF err # ErrNil
       THEN /\ loading' = FALSE
            /\ errorMsg' = Sprintf("Disconnect failed: %v", err)
            /\ Delivered(t, <<>>)
            /\ UNCHANGED <<statusMsg, loadingMsg, selectedStats>>
       ELSE /\ statusMsg' = Text("Disconnected successfully!")
            /\ selectedStats' = NoStats
            /\ loading' = TRUE
            /\ loadingMsg' = "Refreshing sessions..."
            /\ Delivered(t, <<refreshSessions>>)
            /\ UNCHANGED errorMsg
    /\ UNCHANGED <<cfgVars, sessions, currentView, cursorVars, styles, inputVars,
                   quit>>

\* Update with the message of a finished command
UpdateResultMsg ==
    /\ ~quit
    /\ \E t \in BagToSet(tasks) :
          \/ UpdateSessionRefreshMsg(t)
          \/ \E err \in {ErrNil, ErrExit} : UpdateStatsRefreshMsg(t, err)
          \/ \E err \in {ErrNil, ErrExit} : UpdateConnectMsg(t, err)
          \/ \E err \in {ErrNil, ErrExit} : UpdateDisconnectMsg(t, err)
    /\ UNCHANGED <<watchers, themeFile, diskOk, called>>

(***************************************************************************)
(* internal/ui/theme.go: the theme watcher                                 *)
(***************************************************************************)
\* LoadTheme: the theme the file holds now
LoadTheme == themeFile

\* the theme directory is replaced: every watcher blocked in WatchTheme sees
\* the event and returns ThemeChangedMsg
ThemeSwitch ==
    /\ ~quit
    /\ \E th \in Themes \ {themeFile} : themeFile' = th
    /\ watchers' = [armed |-> 0, fired |-> watchers.fired + watchers.armed]
    /\ UNCHANGED <<modelVars, tasks, extSessions, nextHandle, diskOk, called>>

\* WatchTheme returns nil: the watched directory cannot be opened
WatchThemeNil ==
    /\ ~quit
    /\ watchers.armed > 0
    /\ watchers' = [watchers EXCEPT !.armed = @ - 1]
    /\ UNCHANGED <<modelVars, tasks, envVars>>

\* Update, case ThemeChangedMsg, had it started a watcher beside the one
\* it restarts
UpdateThemeChangedMsgTwoWatchers ==
    /\ ~quit
    /\ watchers.fired > 0
    /\ styles' = LoadTheme
    /\ watchers' = [armed |-> watchers.armed + 2, fired |-> watchers.fired - 1]
    /\ UNCHANGED <<cfgVars, sessions, currentView, cursorVars, selectedStats,
                   loadVars, inputVars, msgVars, quit, tasks, envVars>>

\* Update, case ThemeChangedMsg, had it ended the input and the loading
\* indicator as the other cases do
UpdateThemeChangedMsgEndsInput ==
    /\ ~quit
    /\ watchers.fired > 0
    /\ styles' = LoadTheme
    /\ inputMode' = "InputNone"
    /\ loading' = FALSE
    /\ watchers' = [armed |-> watchers.armed + 1, fired |-> watchers.fired - 1]
    /\ UNCHANGED <<cfgVars, sessions, currentView, cursorVars, selectedStats,
                   loadingMsg, textInput, newProfile, completer, msgVars, quit,
                   tasks, envVars>>

\* Update, case ThemeChangedMsg
UpdateThemeChangedMsg ==
    /\ ~quit
    /\ watchers.fired > 0
    /\ styles' = LoadTheme
    /\ watchers' = [armed |-> watchers.armed + 1, fired |-> watchers.fired - 1]
    /\ UNCHANGED <<cfgVars, sessions, currentView, cursorVars, selectedStats,
                   loadVars, inputVars, msgVars, quit, tasks, envVars>>

(***************************************************************************)
(* The program                                                             *)
(***************************************************************************)
\* the keys the model presses in a state: in an input mode the buffer stays
\* a prefix of a text and enter is pressed on a text or on a blank buffer;
\* a profile is added while the bounds leave room for it
Pressed(msg) ==
    IF inputMode # "InputNone"
    THEN LET texts == IF inputMode = "InputProfilePath" THEN PathTexts
                      ELSE NameTexts
             typed == IF inputMode = "InputProfilePath"
                      THEN PathTexts \cup OtherTexts ELSE NameTexts
         IN  /\ msg.type = "runes" => IsPrefixOfSome(textInput \o msg.runes, typed)
             /\ IsKey(msg, "enter") =>
                    (textInput \in texts \/ TrimSpace(textInput) = EmptyStr)
    ELSE IsRune(msg, "a") =>
            /\ Len(profiles) < MaxProfiles
            /\ BagCardinality(tasks) <= MaxTypingTasks

\* the program while the theme directory stays as it is
Next ==
    \/ \E msg \in Keys :
          /\ Pressed(msg)
          /\ UpdateKeyMsg(msg)
          /\ BagCardinality(tasks') <= MaxTasks
    \/ RunTask
    \/ UpdateResultMsg

\* the keys pressed while the theme changes: the view is switched, the
\* sessions are listed again, a path is entered and confirmed, and the
\* input is left
ThemeKeys ==
    {[type |-> t, runes |-> <<>>] : t \in {"tab", "esc", "enter"}}
        \cup {[type |-> "runes", runes |-> r] :
                 r \in {<<"r">>, <<"a">>, <<"~", "/", "a", ".", "o", "v", "p", "n">>}}

Spec == Init /\ [][Next]_vars

(***************************************************************************)
(* The profile store on its own: internal/config/config.go                 *)
(***************************************************************************)
\* the names and the paths given to AddProfile
StoreNames == {<<"q">>, <<"\"", "&", "\\">>}
StorePaths == {<<"/", "d">>, <<"/", "h", "/", "a", " ", "<", ">">>}

\* config.Load with the file in place
Load == Unmarshal(stored)

\* what the store operations leave alone
StoreFrame ==
    /\ profileValid' = ValidateProfiles(profiles')
    /\ UNCHANGED <<sessions, currentView, cursorVars, selectedStats, loadVars,
                   styles, inputVars, msgVars, quit, tasks, watchers, envVars>>

\* Config.AddProfile
StoreAdd(name, path) ==
    /\ Len(profiles) < MaxProfiles
    /\ profiles' = AddProfile(profiles, name, path)
    /\ UNCHANGED stored
    /\ StoreFrame

\* Config.RemoveProfile
StoreRemove(index) ==
    /\ profiles' = RemoveProfile(profiles, index)
    /\ UNCHANGED stored
    /\ StoreFrame

\* Config.Save
StoreSave ==
    /\ Save(profiles, SaveError)
    /\ UNCHANGED profiles
    /\ StoreFrame

\* config.Load
StoreLoad ==
    /\ Load.err = ErrNil
    /\ profiles' = Load.profiles
    /\ UNCHANGED stored
    /\ StoreFrame

NextStore ==
    \/ \E name \in StoreNames, path \in StorePaths : StoreAdd(name, path)
    \/ \E index \in -1..MaxProfiles : StoreRemove(index)
    \/ StoreSave
    \/ StoreLoad

SpecStore == Init /\ [][NextStore]_vars

(***************************************************************************)
(* The program started on other profiles, with sessions the service        *)
(* already holds: what isProfileConnected makes of their names             *)
(***************************************************************************)
\* the path of the one stored profile
MatchPaths ==
    { <<"/", "h", "/", "a", ".", "o", "v", "p", "n">>,
      <<"a", ".", "o", "v", "p", "n">>,
      <<"/", "h", "/", "a">>,
      <<"/", "a", "/", "h", ".", "o", "v", "p", "n">>,
      <<"/", "h", "/">> }

\* the "Config name:" values of the sessions the service holds
MatchConfigs ==
    { <<"/", "h", "/", "a", ".", "o", "v", "p", "n">>,
      <<"a", ".", "o", "v", "p", "n", " ", " ">> \o ConfigNotAvailable,
      <<"/", "x", "/", "h">>,
      <<"a", "/">> }

\* the lists of at most MaxHandles sessions with these values
RECURSIVE ServiceSessions(_)
ServiceSessions(n) ==
    IF n = 0 THEN {<<>>}
    ELSE ServiceSessions(n - 1) \cup
         {Append(ext, [handle |-> Len(ext) + 1, config |-> c]) :
             ext \in {e \in ServiceSessions(n - 1) : Len(e) = n - 1},
             c \in MatchConfigs}

InitMatch ==
    \E path \in MatchPaths, ext \in ServiceSessions(MaxHandles) :
        Start(<<Profile(<<"q">>, path)>>, ext, TRUE)

\* the keys pressed here: connect, and list the sessions again
MatchKeys == {[type |-> "enter", runes |-> <<>>], [type |-> "runes", runes |-> <<"r">>]}

NextMatch ==
    \/ \E msg \in MatchKeys :
          /\ UpdateKeyMsg(msg)
          /\ BagCardinality(tasks') <= MaxTasks
    \/ RunTask
    \/ UpdateResultMsg

SpecMatch == InitMatch /\ [][NextMatch]_vars

(***************************************************************************)
(* The functions of client.go that turn the output of openvpn3 into        *)
(* fields, called on their own                                             *)
(***************************************************************************)
\* the byte counts of a session-stats output
ByteCounts ==
    {n \in {unit * m + (unit \div 8) * j + d :
               unit \in {1, 1024, 1048576}, m \in {0, 1, 1023}, j \in 0..7, d \in {-1, 0, 1}} :
        n >= 0}
    \cup {1073741823, 1073741824, 1073741825, 1207959552, 1476395008, 2147483647}

\* the last field of a session-stats line
ByteTexts ==
    {Itoa(n) : n \in ByteCounts} \cup {<<"x">>, <<"-", "5">>, <<"1", "2", "x">>}

\* lines of a sessions-list output
FieldLines ==
    LET LineCreated ==
            <<"C", "r", "e", "a", "t", "e", "d", ":", " ", "2", "0", "2", "4",
            "-", "0", "1", "-", "0", "1", " ", "1", "0", ":", "0", "0", ":",
            "0", "0", " ", "P", "I", "D", ":", " ", "1", "2", "3", "4", " ",
            "O", "w", "n", "e", "r", ":", " ", "a", "l", "i", "c", "e">>
        LineDate ==
            <<" ", " ", " ", " ", " ", "C", "r", "e", "a", "t", "e", "d", ":",
            " ", "M", "o", "n", " ", "J", "a", "n", " ", "1", " ", "1", "0",
            ":", "0", "0", ":", "0", "0", " ", "2", "0", "2", "4", " ", " ",
            " ", " ", " ", " ", "P", "I", "D", ":", " ", "1", "2">>
        LineOwner ==
            <<" ", " ", " ", " ", " ", " ", " ", "O", "w", "n", "e", "r", ":",
            " ", "a", "l", "i", "c", "e", " ", " ", " ", " ", " ", " ", " ",
            " ", " ", " ", " ", " ", " ", " ", " ", " ", " ", " ", " ", " ",
            "D", "e", "v", "i", "c", "e", ":", " ", "t", "u", "n", "0">>
        LineConfig ==
            <<" ", "C", "o", "n", "f", "i", "g", " ", "n", "a", "m", "e", ":",
            " ", "/", "h", "/", "a", ".", "o", "v", "p", "n", " ", " ", "(",
            "C", "o", "n", "f", "i", "g", " ", "n", "o", "t", " ", "a", "v",
            "a", "i", "l", "a", "b", "l", "e", ")">>
        LineStatus ==
            <<" ", " ", " ", " ", " ", " ", "S", "t", "a", "t", "u", "s", ":",
            " ", "C", "o", "n", "n", "e", "c", "t", "i", "o", "n", ",", " ",
            "C", "l", "i", "e", "n", "t", " ", "c", "o", "n", "n", "e", "c",
            "t", "e", "d">>
        LineNoValue ==
            <<"C", "r", "e", "a", "t", "e", "d", ":", " ", "P", "I", "D", ":",
            " ", "1", "2", "3", "4", " ", "O", "w", "n", "e", "r", ":", " ",
            "a", "l", "i", "c", "e">>
        LineNoValueWide ==
            <<"O", "w", "n", "e", "r", ":", " ", " ", " ", " ", "D", "e", "v",
            "i", "c", "e", ":", " ", "t", "u", "n", "0">>
    IN  {LineCreated, LineDate, LineOwner, LineConfig, LineStatus, LineNoValue, LineNoValueWide}

\* the keys parseSessionsList asks for, and one more of these lines
FieldKeys ==
    { <<"C", "r", "e", "a", "t", "e", "d", ":">>,
      <<"P", "I", "D", ":">>,
      <<"O", "w", "n", "e", "r", ":">>,
      <<"D", "e", "v", "i", "c", "e", ":">>,
      <<"C", "o", "n", "f", "i", "g", " ", "n", "a", "m", "e", ":">>,
      <<"S", "t", "a", "t", "u", "s", ":">>,
      <<"P", "a", "t", "h", ":">> }

CallFormatBytes ==
    /\ \E bytesStr \in ByteTexts :
          /\ fn' = "formatBytes"
          /\ args' = <<bytesStr>>
          /\ ret' = formatBytes(bytesStr)
    /\ UNCHANGED <<modelVars, tasks, watchers, extSessions, nextHandle, themeFile, diskOk>>

CallExtractValue ==
    /\ \E line \in FieldLines, key \in FieldKeys :
          /\ fn' = "extractValue"
          /\ args' = <<line, key>>
          /\ ret' = extractValue(line, key)
    /\ UNCHANGED <<modelVars, tasks, watchers, extSessions, nextHandle, themeFile, diskOk>>

NextText == CallFormatBytes \/ CallExtractValue

SpecText == Init /\ [][NextText]_vars

(***************************************************************************)
(* The program with a configuration directory that cannot be written       *)
(***************************************************************************)
InitDisk == Start(InitialProfiles, <<>>, FALSE)

\* the keys pressed here: add a profile, delete, move, switch the view
DiskKeys ==
    {[type |-> k, runes |-> <<>>] : k \in {"enter", "esc", "tab", "down", "delete"}}
    \cup {[type |-> "runes", runes |-> r] :
             r \in {<<"a">>, <<"d">>, <<"q">>, <<" ">>,
                    <<"~", "/", "a", ".", "o", "v", "p", "n">>}}

NextDisk ==
    \/ \E msg \in DiskKeys :
          /\ Pressed(msg)
          /\ UpdateKeyMsg(msg)
          /\ BagCardinality(tasks') <= MaxTasks
    \/ RunTask
    \/ UpdateResultMsg

SpecDisk == InitDisk /\ [][NextDisk]_vars

(***************************************************************************)
(* The program while a path is completed: the user types the start of a    *)
(* path and walks through the suggestions                                  *)
(***************************************************************************)
CompleteKeys ==
    {[type |-> k, runes |-> <<>>] :
        k \in {"tab", "shift+tab", "enter", "esc", "down"}}
    \cup {[type |-> "runes", runes |-> r] :
             r \in {<<"a">>, <<"q">>, <<" ">>, <<"r">>, <<"~", "/">>}}

NextComplete ==
    \/ \E msg \in CompleteKeys :
          /\ Pressed(msg)
          /\ UpdateKeyMsg(msg)
          /\ BagCardinality(tasks') <= MaxTasks
    \/ RunTask
    \/ UpdateResultMsg

SpecComplete == Init /\ [][NextComplete]_vars

(***************************************************************************)
(* The program with a runtime that runs every command and hands every      *)
(* message to Update: one profile whose file is there, and the keys that   *)
(* send commands                                                           *)
(***************************************************************************)
InitLive ==
    Start(<<Profile(<<"q">>, <<"/", "h", "/", "a", ".", "o", "v", "p", "n">>)>>,
          <<>>, TRUE)

LiveKeys ==
    {[type |-> k, runes |-> <<>>] : k \in {"enter", "tab", "delete"}}
    \cup {[type |-> "runes", runes |-> r] : r \in {<<"r">>, <<"s">>, <<"q">>}}

NextLive ==
    \/ \E msg \in LiveKeys :
          /\ Pressed(msg)
          /\ UpdateKeyMsg(msg)
          /\ BagCardinality(tasks') <= MaxTasks
    \/ RunTask
    \/ UpdateResultMsg

SpecLive ==
    /\ InitLive
    /\ [][NextLive]_vars
    /\ WF_vars(RunTask)
    /\ WF_vars(UpdateResultMsg)

\* the program together with the theme changes around it
NextTheme ==
    \/ \E msg \in ThemeKeys :
          /\ Pressed(msg)
          /\ UpdateKeyMsg(msg)
          /\ BagCardinality(tasks') <= MaxTasks
    \/ RunTask
    \/ UpdateResultMsg
    \/ ThemeSwitch
    \/ WatchThemeNil
    \/ UpdateThemeChangedMsg

SpecTheme == Init /\ [][NextTheme]_vars

(***************************************************************************)
(* The properties                                                          *)
(***************************************************************************)
Kinds == {"refreshSessions", "fetchStats", "connect", "disconnect"}

\* the number of outstanding commands of a kind
Count(kind, bag) ==
    BagCardinality([t \in {u \in BagToSet(bag) : u.kind = kind} |-> bag[t]])

\* Update is applied to a key message
KeyStep == \E msg \in Keys : UpdateKeyMsg(msg)
EnterStep == UpdateKeyMsg([type |-> "enter", runes |-> <<>>])

\* Update is applied to the message of the command t
ResultStep(t) ==
    \/ UpdateSessionRefreshMsg(t)
    \/ \E err \in {ErrNil, ErrExit} : UpdateStatsRefreshMsg(t, err)
    \/ \E err \in {ErrNil, ErrExit} : UpdateConnectMsg(t, err)
    \/ \E err \in {ErrNil, ErrExit} : UpdateDisconnectMsg(t, err)

PathA == <<"/", "h", "/", "a", ".", "o", "v", "p", "n">>
ProfileA == Profile(<<"q">>, PathA)

\* C1: in every reachable state profileCursor is an index of the profile
\* list, or 0 when the list is empty, and sessionCursor is an index of the
\* session list, or 0 when that list is empty
CursorsInRange ==
    /\ profileCursor \in 0..max(0, Len(profiles) - 1)
    /\ sessionCursor \in 0..max(0, Len(sessions) - 1)

\* two sessions were listed, the second was disconnected and the refresh
\* that followed shrank the list to one entry
CursorAfterShrink ==
    /\ Len(sessions) = 1
    /\ sessions[1].Path = 1
    /\ nextHandle = 3
    /\ statusMsg = Text("Disconnected successfully!")
    /\ sessionCursor = 0
    /\ tasks = EmptyBag

\* C2: no key dispatches a connect command for a configuration file that
\* has a connect command outstanding or a live session of the service
NeverConnectedTwice ==
    [][\A t \in BagToSet(tasks') :
          (t.kind = "connect" /\ CopiesIn(t, tasks') > CopiesIn(t, tasks)) =>
             /\ CopiesIn(t, tasks) = 0
             /\ \A i \in 1..Len(extSessions) : extSessions[i].config # t.path]_vars

\* C3: while loading is set, no key dispatches a connect or disconnect
\* command for a target that has one outstanding, and none removes a
\* profile whose connect command is outstanding
NoDestructiveActionWhileLoading ==
    [][(loading /\ KeyStep) =>
          \A t \in BagToSet(tasks) :
             /\ t.kind \in {"connect", "disconnect"} =>
                   CopiesIn(t, tasks') <= CopiesIn(t, tasks)
             /\ t.kind = "connect" =>
                   Cardinality({i \in 1..Len(profiles') : profiles'[i].Path = t.path})
                      >= Cardinality({i \in 1..Len(profiles) : profiles[i].Path = t.path})]_vars

\* C4: whenever loading is set, a refreshSessions, fetchStats or connect
\* command is outstanding
LoadingHasTask ==
    loading => \E t \in BagToSet(tasks) :
                  t.kind \in {"refreshSessions", "fetchStats", "connect"}

\* loading is set by a successful disconnect, for the refresh it chained
LoadingForChainedRefresh ==
    /\ loading
    /\ statusMsg = Text("Disconnected successfully!")
    /\ tasks = SetToBag({refreshSessions})

\* C5: a key handled while an input is collected leaves the view, the
\* cursors, the sessions, the stats, the loading indicator, quit and the
\* outstanding commands as they are, and removes no profile
InputModeSuppressesKeys ==
    [][(inputMode # "InputNone" /\ KeyStep) =>
          /\ UNCHANGED <<currentView, profileCursor, sessionCursor, sessions,
                         selectedStats, loading, loadingMsg, quit, tasks,
                         extSessions, nextHandle>>
          /\ Len(profiles') >= Len(profiles)
          /\ SubSeq(profiles', 1, Len(profiles)) = profiles]_vars

\* "j" was typed into the path while a command was outstanding
TypedNavigationKey ==
    /\ inputMode = "InputProfilePath"
    /\ textInput = <<"j">>
    /\ tasks # EmptyBag
    /\ sessions # <<>>

\* what the flow is to store for a path the user entered: a leading "~"
\* replaced by the home directory
TildeReplaced(path) ==
    IF path # <<>> /\ Head(path) = "~" THEN UserHomeDir.home \o Tail(path)
    ELSE path

\* C6: an input starts only from the Profiles view, as the path input; the
\* enter that ends the path input keeps the entered path with a leading "~"
\* replaced by the home directory; the name input keeps that path; and the
\* enter that ends the name input appends the profile of the entered name
\* and that path to the unchanged list, in mode InputNone
AddProfileFlow ==
    [][/\ (inputMode = "InputNone" /\ inputMode' # "InputNone") =>
             /\ currentView = "ViewProfiles"
             /\ inputMode' = "InputProfilePath"
             /\ textInput' = EmptyStr
             /\ profiles' = profiles
       /\ inputMode = "InputProfilePath" =>
             /\ inputMode' # "InputProfileName" => profiles' = profiles
             /\ inputMode' = "InputProfileName" =>
                   /\ TrimSpace(textInput) # EmptyStr
                   /\ newProfile'.Path = TildeReplaced(TrimSpace(textInput))
                   /\ textInput' = EmptyStr
                   /\ profiles' = profiles
       /\ (inputMode = "InputProfileName" /\ inputMode' = "InputProfileName") =>
             /\ newProfile'.Path = newProfile.Path
             /\ profiles' = profiles
       /\ (inputMode = "InputProfileName" /\ EnterStep
             /\ TrimSpace(textInput) # EmptyStr) =>
             /\ inputMode' = "InputNone"
             /\ profiles' = Append(profiles, Profile(TrimSpace(textInput),
                                                     newProfile.Path))]_vars

\* the flow has run on an empty list, with "~/a.ovpn" or its completion as
\* the path and " q" as the name
AddedToEmptyList ==
    /\ profiles = <<ProfileA>>
    /\ inputMode = "InputNone"
    /\ statusMsg = Sprintf("Added profile: %s", <<"q">>)

\* C7: Update applied to a connectMsg or a disconnectMsg with an error
\* leaves loading false and the error message set, and dispatches no
\* refreshSessions command
FailedResultEndsLoading ==
    [][\A t \in BagToSet(tasks) :
          (UpdateConnectMsg(t, ErrExit) \/ UpdateDisconnectMsg(t, ErrExit)) =>
             /\ ~loading'
             /\ errorMsg' # NoMsg
             /\ tasks' = tasks (-) SetToBag({t})]_vars

\* a connect failed while the list was loading, and nothing is outstanding
ConnectFailed ==
    /\ errorMsg = Sprintf("Connection failed: %v", ErrExit)
    /\ ~loading
    /\ tasks = EmptyBag

\* C8: Update applied to a connectMsg or a disconnectMsg without error
\* dispatches one refreshSessions command and nothing else, with loading
\* set and the loading label of the refresh; applied to any other result
\* message it dispatches nothing
SuccessChainsOneRefresh ==
    [][\A t \in BagToSet(tasks) :
          /\ (UpdateConnectMsg(t, ErrNil) \/ UpdateDisconnectMsg(t, ErrNil)) =>
                /\ tasks' = (tasks (-) SetToBag({t})) (+) SetToBag({refreshSessions})
                /\ loading'
                /\ loadingMsg' = "Refreshing sessions..."
          /\ (\/ UpdateSessionRefreshMsg(t)
              \/ \E err \in {ErrNil, ErrExit} : UpdateStatsRefreshMsg(t, err)
              \/ UpdateConnectMsg(t, ErrExit)
              \/ UpdateDisconnectMsg(t, ErrExit)) =>
                tasks' = tasks (-) SetToBag({t})]_vars

\* a connect succeeded and its refresh is the one outstanding command
RefreshChainedByConnect ==
    /\ statusMsg = Text("Connected successfully!")
    /\ loading
    /\ loadingMsg = "Refreshing sessions..."
    /\ tasks = SetToBag({refreshSessions})
    /\ Len(extSessions) = 1

\* C9: at most one of statusMsg and errorMsg is set
OneMessageAtATime == statusMsg = NoMsg \/ errorMsg = NoMsg

OneThemeWatcher ==
    /\ [](watchers.armed + watchers.fired <= 1)
    /\ [][watchers.armed' > watchers.armed =>
             /\ UpdateThemeChangedMsg
             /\ watchers.armed' = watchers.armed + 1
             /\ watchers.fired' = watchers.fired - 1]_vars

\* the theme changed, its message was applied and the watcher is back
WatcherRestarted ==
    /\ styles = "custom"
    /\ themeFile = "custom"
    /\ watchers = [armed |-> 1, fired |-> 0]

\* C12: whenever selectedStats is set, it holds the stats of the session
\* under sessionCursor
StatsBelongToCursor ==
    selectedStats # NoStats =>
       /\ Len(sessions) > 0
       /\ selectedStats = StatsOf(sessions[sessionCursor + 1].Path)

\* C13: once a connect or disconnect has succeeded, no listing has failed
\* and every command has delivered its message, the session list of the
\* state machine is the listing of the sessions the service holds
SessionsMatchService ==
    (/\ statusMsg \in {Text("Connected successfully!"),
                       Text("Disconnected successfully!")}
     /\ errorMsg = NoMsg
     /\ tasks = EmptyBag) =>
       sessions = parseSessionsList(extSessions)

\* the list without its entry at a 0-based index
WithoutEntry(ps, index) ==
    [i \in 1..(Len(ps) - 1) |-> IF i <= index THEN ps[i] ELSE ps[i + 1]]

\* C14: the file Save writes for the profile list is read back by Load as
\* that list; RemoveProfile with an index outside the list changes nothing
\* and with an index inside it takes exactly that entry out; AddProfile
\* appends its entry
StoreRoundTrips ==
    /\ [](Unmarshal(MarshalIndent(profiles)) = [err |-> ErrNil, profiles |-> profiles])
    /\ [][/\ \A index \in -1..(MaxProfiles + 1) :
                StoreRemove(index) =>
                   profiles' = IF index \in 0..(Len(profiles) - 1)
                               THEN WithoutEntry(profiles, index)
                               ELSE profiles
          /\ (StoreSave /\ stored' # stored) => Unmarshal(stored').profiles = profiles
          /\ (StoreLoad /\ stored = MarshalIndent(profiles)) => profiles' = profiles
          /\ (\E name \in StoreNames, path \in StorePaths : StoreAdd(name, path)) =>
                /\ Len(profiles') = Len(profiles) + 1
                /\ SubSeq(profiles', 1, Len(profiles)) = profiles]_vars

\* the saved file holds two profiles with quotes, backslashes and escaped
\* characters, and other profiles have been put in their place since
SavedAndChanged ==
    /\ Len(Load.profiles) = 2
    /\ Load.profiles[1].Name = <<"\"", "&", "\\">>
    /\ Load.profiles[2].Path = <<"/", "h", "/", "a", " ", "<", ">">>
    /\ Len(profiles) = 1
    /\ profiles # SubSeq(Load.profiles, 1, 1)

\* the final "/"-separated segment of a path
FinalSegment(path) ==
    CHOOSE suffix \in {SubSeq(path, k, Len(path)) : k \in 1..(Len(path) + 1)} :
        /\ \A i \in 1..Len(suffix) : suffix[i] # "/"
        /\ Len(suffix) = Len(path) \/ path[Len(path) - Len(suffix)] = "/"

\* a name without a trailing ".ovpn"
WithoutOvpn(name) ==
    IF Len(name) >= 5 /\ SubSeq(name, Len(name) - 4, Len(name)) = DotOvpn
    THEN SubSeq(name, 1, Len(name) - 5) ELSE name

\* a "Config name:" value without its "(Config not available)" suffix
WithoutNotAvailable(value) ==
    IF HasSuffix(value, ConfigNotAvailable)
    THEN TrimSpace(SubSeq(value, 1, Len(value) - Len(ConfigNotAvailable)))
    ELSE value

\* C15: the config name of every listed session is the "Config name:" value
\* of its session without the "(Config not available)" suffix, the
\* directory part and a trailing ".ovpn"; and a profile is reported as
\* connected exactly if the final segment of its path, without a trailing
\* ".ovpn", is the config name of a listed session
ConnectedMatch ==
    /\ \A j \in 1..Len(sessions) :
          sessions[j].ConfigName =
             WithoutOvpn(FinalSegment(WithoutNotAvailable(extSessions[j].config)))
    /\ \A i \in 1..Len(profiles) :
          isProfileConnected(sessions, profiles[i].Path) <=>
             \E j \in 1..Len(sessions) :
                sessions[j].ConfigName = WithoutOvpn(FinalSegment(profiles[i].Path))

\* the sessions are listed, one of them started from a file whose
\* configuration is gone, and the profile /h/a.ovpn matches it
MatchedUnavailableConfig ==
    /\ Len(sessions) = 2
    /\ extSessions[2].config = <<"a", ".", "o", "v", "p", "n", " ", " ">> \o ConfigNotAvailable
    /\ extSessions[1].config = <<"/", "x", "/", "h">>
    /\ profiles[1].Path = <<"/", "h", "/", "a", ".", "o", "v", "p", "n">>
    /\ errorMsg = Sprintf("'%s' is already connected", <<"q">>)

\* enter is handled in the Profiles view, outside the inputs, with the cursor
\* on a profile
EnterOnProfile ==
    /\ EnterStep
    /\ inputMode = "InputNone"
    /\ currentView = "ViewProfiles"
    /\ Len(profiles) > 0

\* C16: enter on a profile whose file is there: if a listed session has
\* the name of the profile's file, the error "'<name>' is already connected"
\* is set, no command is started and loading stays as it was; otherwise
\* loading is set and exactly one connect for the path of the profile is
\* started
EnterConnectsOrRefuses ==
    [][EnterOnProfile /\ profileValid[profileCursor + 1]
       => LET profile == profiles[profileCursor + 1]
              matched == \E j \in 1..Len(sessions) :
                            sessions[j].ConfigName =
                               WithoutOvpn(FinalSegment(profile.Path))
          IN  IF matched
              THEN /\ errorMsg' = Sprintf("'%s' is already connected", profile.Name)
                   /\ tasks' = tasks
                   /\ loading' = loading
              ELSE /\ loading'
                   /\ tasks' = tasks (+) SetToBag({Cmd("connect", profile.Path, 0)})]_vars

\* the connect of the profile q and the refresh after it are over, and
\* another enter on q was refused
AlreadyConnectedRefused ==
    /\ errorMsg = Sprintf("'%s' is already connected", <<"q">>)
    /\ tasks = EmptyBag
    /\ ~loading
    /\ Len(sessions) = 1

\* C17: enter on a profile whose file is marked missing sets an error,
\* starts no command and leaves loading, the profiles, the sessions and
\* the cursors as they were; deleting that profile takes it out of the
\* list, with the status "Removed profile: <name>"
MissingFileBlocksOnlyConnect ==
    [][/\ EnterOnProfile /\ ~profileValid[profileCursor + 1]
          => /\ errorMsg' = Text("Config file not found")
             /\ tasks' = tasks
             /\ UNCHANGED <<loading, profiles, sessions, profileCursor, sessionCursor>>
       /\ /\ \E msg \in {[type |-> "delete", runes |-> <<>>],
                         [type |-> "runes", runes |-> <<"d">>]} : UpdateKeyMsg(msg)
          /\ inputMode = "InputNone"
          /\ currentView = "ViewProfiles"
          /\ Len(profiles) > 0
          /\ ~profileValid[profileCursor + 1]
          => /\ profiles' = WithoutEntry(profiles, profileCursor)
             /\ statusMsg' = Sprintf("Removed profile: %s", profiles[profileCursor + 1].Name)
             /\ errorMsg' = NoMsg]_vars

\* enter on the profile d, whose file is missing, was refused with two
\* profiles in the list and a session running
ConnectRefusedForMissingFile ==
    /\ errorMsg = Text("Config file not found")
    /\ Len(profiles) = 2
    /\ profileCursor = 0
    /\ Len(sessions) = 1
    /\ tasks = EmptyBag

\* C20: a cursor key (up, k, down, j) handled outside the inputs leaves no
\* stats selected, in both views, whether the cursor moves or not
CursorKeysClearStats ==
    [][/\ \E msg \in {[type |-> "up", runes |-> <<>>],
                      [type |-> "down", runes |-> <<>>],
                      [type |-> "runes", runes |-> <<"k">>],
                      [type |-> "runes", runes |-> <<"j">>]} : UpdateKeyMsg(msg)
       /\ inputMode = "InputNone"
       => selectedStats' = NoStats]_vars

\* the cursor was moved down to the second of two sessions, and no stats
\* are selected
CursorMovedInSessions ==
    /\ currentView = "ViewSessions"
    /\ Len(sessions) = 2
    /\ sessionCursor = 1
    /\ selectedStats = NoStats

\* the number a text of decimal digits stands for
RECURSIVE DecimalValue(_)
DecimalValue(text) ==
    IF text = <<>> THEN 0
    ELSE DecimalValue(SubSeq(text, 1, Len(text) - 1)) * 10
         + (CHOOSE v \in 0..9 : Digits[v + 1] = text[Len(text)])

AllDigits(text) == text # <<>> /\ \A i \in 1..Len(text) : IsDigit(text[i])

\* text is "<whole>.<two digits> <letter>B", and whole.digits is n/unit to
\* the nearest hundredth
ScaledBy(text, n, unit, letter) ==
    LET dots  == {i \in 1..Len(text) : text[i] = "."}
        dot   == CHOOSE i \in dots : TRUE
        whole == SubSeq(text, 1, dot - 1)
        frac  == SubSeq(text, dot + 1, dot + 2)
        h     == DecimalValue(whole) * 100 + DecimalValue(frac)
        r     == n % unit
        a     == (h - 100 * (n \div unit)) * (unit \div 1024) - 100 * (r \div 1024)
        off   == a * 1024 - 100 * (r % 1024)    \* (h*unit - 100*n) / (unit/1024)
    IN  /\ Cardinality(dots) = 1
        /\ Len(text) = dot + 5
        /\ AllDigits(whole) /\ AllDigits(frac)
        /\ SubSeq(text, dot + 3, dot + 5) = <<" ", letter, "B">>
        /\ h - 100 * (n \div unit) \in 0..100
        /\ off <= 512 * (unit \div 1024)
        /\ 0 - off <= 512 * (unit \div 1024)

\* C18: a count below 1024 is formatted as "<n> B", a count from 1024 as
\* KB, from 1024^2 as MB and from 1024^3 as GB, the count divided by the
\* unit with two decimals; 0 is "0 B", 1023 is "1023 B", 1024 is "1.00 KB",
\* 1048576 is "1.00 MB" and 1073741824 is "1.00 GB"
FormatBytesUnits ==
    fn = "formatBytes" /\ AllDigits(args[1]) =>
        LET n == DecimalValue(args[1])
        IN  /\ n < 1024 => ret = args[1] \o <<" ", "B">>
            /\ n >= 1024 /\ n < 1024 * 1024 => ScaledBy(ret, n, 1024, "K")
            /\ n >= 1024 * 1024 /\ n < 1024 * 1024 * 1024
                  => ScaledBy(ret, n, 1024 * 1024, "M")
            /\ n >= 1024 * 1024 * 1024 => ScaledBy(ret, n, 1024 * 1024 * 1024, "G")
            /\ n = 0 => ret = <<"0", " ", "B">>
            /\ n = 1023 => ret = <<"1", "0", "2", "3", " ", "B">>
            /\ n = 1024 => ret = <<"1", ".", "0", "0", " ", "K", "B">>
            /\ n = 1048576 => ret = <<"1", ".", "0", "0", " ", "M", "B">>
            /\ n = 1073741824 => ret = <<"1", ".", "0", "0", " ", "G", "B">>

\* 1152 bytes, a KB and an eighth, were formatted
FormattedEighth ==
    /\ fn = "formatBytes"
    /\ args = <<<<"1", "1", "5", "2">>>>
    /\ ret = <<"1", ".", "1", "2", " ", "K", "B">>

\* the value of the field key of line as the cut at the next field gives
\* it: what follows the first key up to the first space after which, spaces
\* skipped, an upper-case letter stands with a colon among the 19
\* characters after it; without the spaces around it
ValueBeforeNextField(line, key) ==
    LET starts == {i \in 1..(Len(line) - Len(key) + 1) :
                      SubSeq(line, i, i + Len(key) - 1) = key}
        start  == CHOOSE i \in starts : \A j \in starts : i <= j
        rest   == SubSeq(line, start + Len(key), Len(line))
        Token(p) == LET after == {q \in (p + 1)..Len(rest) : rest[q] # " "}
                    IN  IF after = {} THEN <<>>
                        ELSE SubSeq(rest, CHOOSE q \in after : \A o \in after : q <= o,
                                    Len(rest))
        cuts   == {p \in 1..Len(rest) :
                      /\ rest[p] = " "
                      /\ Token(p) # <<>>
                      /\ IsUpper(Token(p)[1])
                      /\ \E c \in 2..20 : c <= Len(Token(p)) /\ Token(p)[c] = ":"}
        cut    == CHOOSE p \in cuts : \A q \in cuts : p <= q
    IN  IF starts = {} THEN <<>>
        ELSE TrimSpace(IF cuts = {} THEN rest ELSE SubSeq(rest, 1, cut - 1))

\* C19: the value extractValue returns for a key of a line with several
\* fields ends before the next field: before the next upper-case token,
\* set off by spaces, with a colon within 20 characters; without the
\* spaces around it
FieldValueEndsAtNextField ==
    fn = "extractValue" => ret = ValueBeforeNextField(args[1], args[2])

\* Update is applied to the key "s"
StatsKeyStep == UpdateKeyMsg([type |-> "runes", runes |-> <<"s">>])

\* Update is applied to the key "d" or delete
DeleteStep ==
    \E msg \in {[type |-> "delete", runes |-> <<>>],
                [type |-> "runes", runes |-> <<"d">>]} : UpdateKeyMsg(msg)

\* C21: outside the inputs, enter or "s" in the Sessions view with sessions
\* listed sets loading and starts exactly one fetch of the stats of the
\* session under the cursor; with no session listed neither starts a
\* command nor changes loading; "s" in the Profiles view changes nothing
StatsFetchedForCursor ==
    [][inputMode = "InputNone" /\ (EnterStep \/ StatsKeyStep) =>
          /\ currentView = "ViewSessions" /\ Len(sessions) > 0 =>
                /\ loading'
                /\ tasks' = tasks (+) SetToBag({Cmd("fetchStats", EmptyStr,
                                                    sessions[sessionCursor + 1].Path)})
          /\ currentView = "ViewSessions" /\ Len(sessions) = 0 =>
                /\ tasks' = tasks
                /\ loading' = loading
          /\ currentView = "ViewProfiles" /\ ~EnterStep => UNCHANGED vars]_vars

\* the stats of the second of two sessions are being fetched
FetchingSecondSession ==
    /\ currentView = "ViewSessions"
    /\ Len(sessions) = 2
    /\ sessionCursor = 1
    /\ loading
    /\ tasks = SetToBag({Cmd("fetchStats", EmptyStr, sessions[2].Path)})

\* C22: outside the inputs, "d" or delete in the Profiles view with
\* profiles stored takes out exactly the profile under the cursor, marks
\* each profile left by whether its file is there, moves a cursor that is
\* past the end to the last entry, or to 0, and starts no command; in the
\* Sessions view with sessions listed it starts exactly one disconnect of
\* the session under the cursor and leaves loading and the sessions alone;
\* on an empty list only the messages may change
DeleteActsOnCursor ==
    [][inputMode = "InputNone" /\ DeleteStep =>
          /\ currentView = "ViewProfiles" /\ Len(profiles) > 0 =>
                /\ profiles' = WithoutEntry(profiles, profileCursor)
                /\ profileValid' = [i \in 1..Len(profiles') |->
                                       profiles'[i].Path \in FsFiles]
                /\ profileCursor' = IF profileCursor >= Len(profiles')
                                    THEN (IF Len(profiles') = 0 THEN 0
                                          ELSE Len(profiles') - 1)
                                    ELSE profileCursor
                /\ tasks' = tasks
          /\ currentView = "ViewSessions" /\ Len(sessions) > 0 =>
                /\ tasks' = tasks (+) SetToBag({Cmd("disconnect", EmptyStr,
                                                    sessions[sessionCursor + 1].Path)})
                /\ UNCHANGED <<loading, sessions>>
          /\ \/ currentView = "ViewProfiles" /\ Len(profiles) = 0
             \/ currentView = "ViewSessions" /\ Len(sessions) = 0
             => UNCHANGED <<cfgVars, sessions, currentView, cursorVars,
                            selectedStats, loadVars, styles, inputVars, quit,
                            tasks, watchers, envVars>>]_vars

\* the second of two profiles was deleted, and the cursor moved back onto
\* the one that is left, whose file is missing
DeletedLastProfile ==
    /\ statusMsg = Sprintf("Removed profile: %s", <<"q">>)
    /\ Len(profiles) = 1
    /\ profileCursor = 0
    /\ profileValid = <<FALSE>>

\* Update is applied to the key esc
EscStep == UpdateKeyMsg([type |-> "esc", runes |-> <<>>])

\* C23: esc in either input ends it with the partial profile emptied, and
\* leaves the profiles, the file, the cursors, the view, the sessions and
\* loading alone; enter on a blank input changes nothing
InputCancelled ==
    [][inputMode # "InputNone" =>
          /\ EscStep =>
                /\ inputMode' = "InputNone"
                /\ newProfile' = EmptyProfile
                /\ UNCHANGED <<profiles, stored, profileCursor, sessionCursor,
                               currentView, sessions, loading>>
          /\ EnterStep /\ (\A i \in 1..Len(textInput) : textInput[i] \in {" ", "\t"})
                => UNCHANGED vars]_vars

\* the name is asked for, a path is kept for the profile, and the input
\* holds a blank
BlankNameWithPathKept ==
    /\ inputMode = "InputProfileName"
    /\ newProfile.Path = PathA
    /\ textInput = <<" ">>

\* C24: when Save fails, the add that ends the name input and the delete
\* of a profile still change the list in memory; the error "Failed to save
\* config" is set and no status; the profiles are marked again by their
\* files; the mode is InputNone; the program has not quit; no command is
\* started and the file is as it was
SaveFailureKeepsMutation ==
    [][~diskOk =>
          /\ /\ inputMode = "InputProfileName"
             /\ EnterStep
             /\ \E i \in 1..Len(textInput) : textInput[i] \notin {" ", "\t"}
             => /\ Len(profiles') = Len(profiles) + 1
                /\ SubSeq(profiles', 1, Len(profiles)) = profiles
                /\ profiles'[Len(profiles')].Path = newProfile.Path
                /\ statusMsg' \in {statusMsg, NoMsg}
          /\ /\ inputMode = "InputNone"
             /\ currentView = "ViewProfiles"
             /\ Len(profiles) > 0
             /\ DeleteStep
             => /\ profiles' = WithoutEntry(profiles, profileCursor)
                /\ statusMsg' = NoMsg
          /\ profiles' # profiles =>
                /\ errorMsg' = Sprintf("Failed to save config: %v", "permission denied")
                /\ profileValid' = [i \in 1..Len(profiles') |->
                                       profiles'[i].Path \in FsFiles]
                /\ inputMode' = "InputNone"
                /\ UNCHANGED <<quit, tasks, stored>>]_vars

\* a profile was added with the save failing, the file holds the one
\* profile it held, and a key pressed since moved the cursor to the new
\* profile
AddedWithoutSaving ==
    /\ ~diskOk
    /\ errorMsg = Sprintf("Failed to save config: %v", "permission denied")
    /\ Len(profiles) = 2
    /\ stored = MarshalIndent(InitialProfiles)
    /\ profileCursor = 1
    /\ inputMode = "InputNone"

\* Update is applied to tab, enter, "a", "d", delete, "r" or "s"
ActionKeyStep ==
    \E msg \in {[type |-> k, runes |-> <<>>] : k \in {"tab", "enter", "delete"}}
               \cup {[type |-> "runes", runes |-> <<r>>] : r \in {"a", "d", "r", "s"}} :
        UpdateKeyMsg(msg)

\* C25: after tab, enter, "a", "d", delete, "r" or "s" is handled outside
\* the inputs, no status and no error from before it is left: each is
\* empty or was set by that key
MessagesClearedByActionKey ==
    [][inputMode = "InputNone" /\ ActionKeyStep =>
          /\ \/ statusMsg' = NoMsg
             \/ statusMsg' # statusMsg
             \/ /\ EnterStep \/ DeleteStep
                /\ statusMsg'[1] \in {"Connecting to %s...", "Removed profile: %s",
                                      "Disconnecting..."}
          /\ \/ errorMsg' = NoMsg
             \/ errorMsg' # errorMsg
             \/ /\ EnterStep \/ DeleteStep
                /\ errorMsg'[1] \in {"Config file not found",
                                     "'%s' is already connected",
                                     "Failed to save config: %v"}]_vars

\* the messages an outstanding command can deliver: the one a finished
\* listing holds, or a success or a failure of the other commands
MsgsOf(t) ==
    IF t.kind = "refreshSessions"
    THEN IF t.phase = "done"
         THEN {[kind |-> t.kind, err |-> t.err, sessions |-> t.sessions, handle |-> 0]}
         ELSE {}
    ELSE {[kind |-> t.kind, err |-> err, sessions |-> <<>>, handle |-> t.handle] :
             err \in {ErrNil, ErrExit}}

\* the sessions and the stats after a message is applied
SessionsAfter(msg, ss) ==
    IF msg.kind = "refreshSessions" /\ msg.err = ErrNil THEN msg.sessions ELSE ss
StatsAfter(msg, stats) ==
    IF msg.err # ErrNil THEN stats
    ELSE IF msg.kind = "fetchStats" THEN <<[handle |-> msg.handle]>>
    ELSE IF msg.kind = "disconnect" THEN <<>>
    ELSE stats

\* a connectMsg or statsRefreshMsg leaves the sessions and both cursors
\* alone, a connectMsg or sessionRefreshMsg leaves the stats alone, and
\* the sessions and the stats after a message are SessionsAfter and
\* StatsAfter of it
HandlersWriteOwnFields ==
    tasks' # tasks =>
        \A t \in BagToSet(tasks) :
            /\ UpdateSessionRefreshMsg(t) =>
                  /\ UNCHANGED selectedStats
                  /\ \E msg \in MsgsOf(t) : sessions' = SessionsAfter(msg, sessions)
            /\ \A err \in {ErrNil, ErrExit} :
                  /\ UpdateStatsRefreshMsg(t, err) =>
                        /\ UNCHANGED <<sessions, profileCursor, sessionCursor>>
                        /\ \E msg \in MsgsOf(t) :
                              /\ msg.err = err
                              /\ selectedStats' = StatsAfter(msg, selectedStats)
                  /\ UpdateConnectMsg(t, err) =>
                        UNCHANGED <<sessions, profileCursor, sessionCursor, selectedStats>>
                  /\ UpdateDisconnectMsg(t, err) =>
                        /\ UNCHANGED sessions
                        /\ \E msg \in MsgsOf(t) :
                              /\ msg.err = err
                              /\ selectedStats' = StatsAfter(msg, selectedStats)

\* the sessions and the stats after the messages of the commands t and u
\* are the same in both orders
SameInBothOrders(t, u) ==
    \A m \in MsgsOf(t), n \in MsgsOf(u) :
        /\ SessionsAfter(n, SessionsAfter(m, sessions))
              = SessionsAfter(m, SessionsAfter(n, sessions))
        /\ StatsAfter(n, StatsAfter(m, selectedStats))
              = StatsAfter(m, StatsAfter(n, selectedStats))

\* C26 as stated: the handlers write their own fields only, so that for
\* any two outstanding commands the sessions and the stats after both
\* messages do not depend on the order of the two
ResultOrderIrrelevant ==
    /\ [][HandlersWriteOwnFields]_vars
    /\ [](\A t, u \in BagToSet(tasks) : t # u => SameInBothOrders(t, u))

\* what does hold: the handlers write their own fields only, and for two
\* outstanding commands of different kinds among connect, fetchStats and
\* refreshSessions the sessions and the stats after both messages do not
\* depend on the order of the two
ResultOrderIrrelevantAcrossKinds ==
    /\ [][HandlersWriteOwnFields]_vars
    /\ [](\A t, u \in BagToSet(tasks) :
             /\ t.kind # u.kind
             /\ {t.kind, u.kind} \subseteq {"connect", "fetchStats", "refreshSessions"}
             => SameInBothOrders(t, u))

\* C27: as long as a task that was sent with loading set (a listing of the
\* sessions, a connect or a fetch of the statistics) has not delivered its
\* result, loading is set
LoadingWhileTaskOutstanding ==
    \A t \in BagToSet(tasks) :
        t.kind \in {"refreshSessions", "connect", "fetchStats"} => loading

\* Update is applied to the key tab, or to shift+tab
TabStep == UpdateKeyMsg([type |-> "tab", runes |-> <<>>])
ShiftTabStep == UpdateKeyMsg([type |-> "shift+tab", runes |-> <<>>])

\* C28: while the path is asked for with two or more suggestions, tab puts
\* the suggestion after the selected one into the input, the first one
\* after the last, and shift+tab the one before it, the last one before
\* the first; the suggestions stay as they are with the selection on that
\* one, so that further presses go on through the list; the mode stays
\* and no profile is added
TabCyclesSuggestions ==
    [][inputMode = "InputProfilePath" /\ Len(completer.suggestions) >= 2 =>
          LET list == completer.suggestions
              k    == Len(list)
              i    == completer.selectedIndex
              Landed(n) == /\ textInput' = list[n + 1]
                           /\ completer'.suggestions = list
                           /\ completer'.selectedIndex = n
                           /\ inputMode' = "InputProfilePath"
                           /\ profiles' = profiles
          IN  /\ TabStep => Landed(IF i + 1 >= k THEN 0 ELSE i + 1)
              /\ ShiftTabStep => Landed(IF i - 1 < 0 THEN k - 1 ELSE i - 1)]_vars

\* C29: when View renders the profiles, every row of a profile whose file
\* is not on disk ends with the marker " (file not found)", wherever the
\* cursor is and whatever sessions are listed
MissingFileRowsMarked ==
    inputMode = "InputNone" /\ currentView = "ViewProfiles" =>
        \A i \in 1..Len(profiles) :
            profiles[i].Path \notin FsFiles =>
                HasSuffix(renderProfiles[i].text,
                          <<" ", "(", "f", "i", "l", "e", " ", "n", "o", "t",
                            " ", "f", "o", "u", "n", "d", ")">>)

\* C30: when the message of a finished listing is taken by Update, loading
\* is false afterwards; without an error the sessions are exactly the
\* delivered list; with an error the error message "Failed to fetch
\* sessions" is set and sessions and sessionCursor are as they were
RefreshReplacesSessions ==
    [][tasks' # tasks =>
          \A t \in BagToSet(tasks) :
              /\ t.kind = "refreshSessions"
              /\ t.phase = "done"
              /\ tasks' = tasks (-) SetToBag({t})
              => /\ loading' = FALSE
                 /\ IF t.err = ErrNil
                    THEN sessions' = t.sessions
                    ELSE /\ errorMsg' = Sprintf("Failed to fetch sessions: %v", t.err)
                         /\ errorMsg' # NoMsg
                         /\ UNCHANGED <<sessions, sessionCursor>>]_vars

\* a listing has failed with two sessions in the list and the cursor on
\* the second: the list and the cursor are kept under the error message
FailedListingKeptSessions ==
    /\ errorMsg = Sprintf("Failed to fetch sessions: %v", ErrExit)
    /\ Len(sessions) = 2
    /\ sessionCursor = 1
    /\ ~loading
    /\ tasks = EmptyBag

\* C31: a step in which Update takes a ThemeChangedMsg sets the styles to
\* the theme on disk and leaves the view, both cursors, the input mode,
\* the input buffer, the pending profile, the profiles, the sessions, the
\* selected stats, loading and both messages as they were, also during
\* the input of a profile and with commands outstanding
ThemeChangeOnlyStyles ==
    [][watchers.fired' < watchers.fired =>
          /\ styles' = themeFile
          /\ UNCHANGED <<currentView, profileCursor, sessionCursor, inputMode,
                         textInput, newProfile, profiles, sessions,
                         selectedStats, loading, statusMsg, errorMsg>>
          /\ tasks' = tasks]_vars

\* the new theme is applied while the name of a profile is asked for, its
\* path entered, and a listing is outstanding with loading set
ThemeAppliedDuringInput ==
    /\ styles = "custom"
    /\ themeFile = "custom"
    /\ watchers = [armed |-> 1, fired |-> 0]
    /\ inputMode = "InputProfileName"
    /\ newProfile.Path = PathA
    /\ loading
    /\ tasks # EmptyBag

\* a step that takes no command away: Update applied to a key
NoCommandTaken ==
    \A t \in BagToSet(tasks) : CopiesIn(t, tasks') >= CopiesIn(t, tasks)

\* C32: when every command is run and its message handed over, and from
\* some point on no key is handled, then from some point on loading is
\* false and no command is outstanding, as long as the program has not
\* quit; the message of a listing or of a fetch of the stats sends no
\* command, and the message of a connect or disconnect sends one listing
\* or nothing
CommandsSettle ==
    /\ <>[][~NoCommandTaken]_vars
          => <>[](quit \/ (~loading /\ tasks = EmptyBag))
    /\ [][\A t \in BagToSet(tasks) :
              /\ CopiesIn(t, tasks') < CopiesIn(t, tasks)
              /\ ~(t.kind = "refreshSessions" /\ t.phase = "running")
              => IF t.kind \in {"refreshSessions", "fetchStats"}
                 THEN tasks' = tasks (-) SetToBag({t})
                 ELSE tasks' \in {tasks (-) SetToBag({t}),
                                  (tasks (-) SetToBag({t})) (+) SetToBag({refreshSessions})}]_vars

\* a connect has succeeded, the listing it sent has shown the session, and
\* nothing is outstanding
SettledAfterConnect ==
    /\ statusMsg = Text("Connected successfully!")
    /\ Len(sessions) = 1
    /\ ~loading
    /\ tasks = EmptyBag
    /\ ~quit

====
